---- MODULE Spec2Model ----
(***************************************************************************)
(* Remindria: the conversational schedule-intent pipeline.                 *)
(*                                                                         *)
(*   intent extraction   app/ai/caller.py  parse_natural_language_...      *)
(*                       app/utils/helper.py extract_json_from_text,       *)
(*                                           parse_datetime                *)
(*   action executor     app/views/chat_view.py actually_*_schedule        *)
(*   schedule store      app/models/schedule_model.py,                     *)
(*                       app/models/schedule_record_model.py               *)
(*   chat turn           app/views/chat_view.py chat                       *)
(*                                                                         *)
(* Python values are tagged records ([k |-> "none"], [k |-> "str", ...],   *)
(* [k |-> "datetime", ...]); a datetime is an instant, numbered 1..MaxTime.*)
(* A completion text is a sequence of lexical tokens, so that the regular  *)
(* expressions of extract_json_from_text and json.loads act on its shape.  *)
(***************************************************************************)
EXTENDS Integers, Sequences, FiniteSets, TLC

(***************************************************************************)
(* Bounds of the model.                                                    *)
(***************************************************************************)
MaxTime == 2
MaxBatch == 2
MaxClock == 7

Times == 1..MaxTime

(***************************************************************************)
(* Python values.                                                          *)
(***************************************************************************)
PyNone == [k |-> "none"]
PyStr(s) == [k |-> "str", s |-> s]
PyDt(t) == [k |-> "datetime", t |-> t]
\* datetime.isoformat(): a str, no longer a datetime
PyIso(t) == [k |-> "isostr", t |-> t]

\* str(ObjectId)
PyId(n) == [k |-> "objectid", n |-> n]

\* Python truth value of a field (None and "" are falsy, a datetime is truthy)
Truthy(v) == \/ v.k = "datetime"
             \/ v.k = "isostr"
             \/ v.k = "objectid"
             \/ (v.k = "str" /\ v.s # "")
             \/ (v.k = "text" /\ v.toks # <<>>)

(***************************************************************************)
(* helper.parse_datetime: three strptime formats in order, then the        *)
(* permissive dateparser.  The strings the model knows, with the instant   *)
(* each denotes under the format that accepts it.                          *)
(***************************************************************************)
Strptime(s, fmt) ==
    CASE fmt = "%Y-%m-%d %H:%M:%S" ->
            (CASE s = "2024-03-01 10:00:00" -> PyDt(1)
               [] s = "2024-03-01 11:00:00" -> PyDt(2)
               [] OTHER -> PyNone)
      [] fmt = "%Y-%m-%dT%H:%M:%S" ->
            (CASE s = "2024-03-01T10:00:00" -> PyDt(1)
               [] s = "2024-03-01T11:00:00" -> PyDt(2)
               [] OTHER -> PyNone)
      [] fmt = "%m/%d/%Y %H:%M" ->
            (CASE s = "03/01/2024 10:00" -> PyDt(1)
               [] s = "03/01/2024 11:00" -> PyDt(2)
               [] OTHER -> PyNone)
      [] OTHER -> PyNone

\* dateparser.parse: natural language; None for what it cannot read
DateParserParse(s) ==
    CASE s = "March 1 2024 at 10am" -> PyDt(1)
      [] s = "March 1 2024 at 11am" -> PyDt(2)
      [] OTHER -> PyNone

StrictFormats == <<"%Y-%m-%d %H:%M:%S", "%Y-%m-%dT%H:%M:%S", "%m/%d/%Y %H:%M">>

RECURSIVE TryFormats(_, _)
TryFormats(s, i) ==
    IF i > Len(StrictFormats) THEN DateParserParse(s)
    ELSE IF Strptime(s, StrictFormats[i]) # PyNone THEN Strptime(s, StrictFormats[i])
    ELSE TryFormats(s, i + 1)

\* parse_datetime(dt_str): strptime on an argument that is not a str (a JSON
\* null) raises TypeError, which "except ValueError" does not catch
TypeError == [k |-> "TypeError"]
parse_datetime(v) == IF v.k # "str" THEN TypeError ELSE TryFormats(v.s, 1)

(***************************************************************************)
(* JSON objects of the completion output: a function from the keys present *)
(* to JSON strings.  item.get(key, default) is Get.                        *)
(***************************************************************************)
ABSENT == [k |-> "absent"]
EmptyObj == [x \in {} |-> ABSENT]
Field(key, v) == IF v = ABSENT THEN EmptyObj ELSE key :> v
Get(item, key, default) == IF key \in DOMAIN item THEN item[key] ELSE default

AddItem(title, start, end) ==
    Field("intent", PyStr("add_schedule")) @@ Field("schedule_title", title)
      @@ Field("start_time", start) @@ Field("end_time", end)
UpdateItem(ident, existing, ntitle, nstart, nend) ==
    Field("intent", PyStr("update_schedule")) @@ Field("schedule_identifier", ident)
      @@ Field("existing_start_time", existing) @@ Field("new_title", ntitle)
      @@ Field("new_start_time", nstart) @@ Field("new_end_time", nend)
DeleteItem(ident, existing) ==
    Field("intent", PyStr("delete_schedule")) @@ Field("schedule_identifier", ident)
      @@ Field("existing_start_time", existing)
OtherItem == Field("intent", PyStr("list_schedules"))

(***************************************************************************)
(* JSON values (the result of json.loads).                                 *)
(***************************************************************************)
JDict(item) == [k |-> "dict", item |-> item]
JList(elems) == [k |-> "list", elems |-> elems]
JStr(s) == [k |-> "str", s |-> s]
JNull == [k |-> "none"]
JError == [k |-> "JSONDecodeError"]

(***************************************************************************)
(* The completion text as tokens.  "{" "}" "[" "]" "," are the JSON        *)
(* punctuation, "members" the key/value pairs of one object, "string" a    *)
(* quoted JSON string, "word" a bare word, "prose" other text,             *)
(* "fence_open" the characters ```json and "fence_close" the characters ```*)
(***************************************************************************)
Tok(t) == [t |-> t]
MembersTok(item) == [t |-> "members", item |-> item]
StringTok(s) == [t |-> "string", s |-> s]
WordTok(s) == [t |-> "word", s |-> s]

\* the text of a JSON value, as json.dumps would write it
RECURSIVE RenderJson(_)
RECURSIVE RenderElems(_, _)
RenderElems(elems, i) ==
    IF i > Len(elems) THEN <<>>
    ELSE (IF i > 1 THEN <<Tok(",")>> ELSE <<>>) \o RenderJson(elems[i])
           \o RenderElems(elems, i + 1)
RenderJson(v) ==
    CASE v.k = "dict" -> IF v.item = EmptyObj THEN <<Tok("{"), Tok("}")>>
                         ELSE <<Tok("{"), MembersTok(v.item), Tok("}")>>
      [] v.k = "list" -> <<Tok("[")>> \o RenderElems(v.elems, 1) \o <<Tok("]")>>
      [] v.k = "str" -> <<StringTok(v.s)>>
      [] OTHER -> <<WordTok("null")>>

(***************************************************************************)
(* helper.extract_json_from_text                                           *)
(*   ```json\s*(\{.*?\})\s*```   then   (\{.*\})   then None               *)
(***************************************************************************)
Match(toks) == [k |-> "match", toks |-> toks]

\* ```json\s*(\{.*?\})\s*``` : the leftmost fence that is directly followed by
\* "{", and the nearest "}" that is directly followed by the closing fence
\* the characters ``` also begin an opening fence
ClosesFence(tok) == tok.t \in {"fence_close", "fence_open"}
FenceStarts(text) ==
    {i \in 1..Len(text) :
        /\ text[i].t = "fence_open"
        /\ i + 1 <= Len(text)
        /\ text[i + 1].t = "{"
        /\ \E j \in (i + 2)..(Len(text) - 1) :
              text[j].t = "}" /\ ClosesFence(text[j + 1])}
FenceEnds(text, i) ==
    {j \in (i + 2)..(Len(text) - 1) : text[j].t = "}" /\ ClosesFence(text[j + 1])}
Min(S) == CHOOSE x \in S : \A y \in S : x <= y
Max(S) == CHOOSE x \in S : \A y \in S : x >= y

\* (\{.*\}) : greedy, from the first "{" to the last "}"
OpenBraces(text) == {i \in 1..Len(text) : text[i].t = "{"}
CloseBraces(text) == {i \in 1..Len(text) : text[i].t = "}"}

extract_json_from_text(text) ==
    IF FenceStarts(text) # {}
    THEN LET i == Min(FenceStarts(text))
         IN  Match(SubSeq(text, i + 1, Min(FenceEnds(text, i))))
    ELSE IF /\ OpenBraces(text) # {}
            /\ \E b \in CloseBraces(text) : b > Min(OpenBraces(text))
    THEN Match(SubSeq(text, Min(OpenBraces(text)), Max(CloseBraces(text))))
    ELSE PyNone

(***************************************************************************)
(* json.loads on a token text: recursive descent, the whole text must be   *)
(* one value ("Extra data" otherwise).                                     *)
(***************************************************************************)
Fail == [ok |-> FALSE]
Parsed(v, next) == [ok |-> TRUE, val |-> v, next |-> next]
TokAt(toks, i) == IF i >= 1 /\ i <= Len(toks) THEN toks[i].t ELSE "eof"

RECURSIVE ParseValue(_, _)
RECURSIVE ParseElems(_, _, _)
ParseElems(toks, i, acc) ==
    LET r == ParseValue(toks, i)
    IN  IF ~r.ok THEN Fail
        ELSE IF TokAt(toks, r.next) = "," THEN ParseElems(toks, r.next + 1, Append(acc, r.val))
        ELSE IF TokAt(toks, r.next) = "]" THEN Parsed(JList(Append(acc, r.val)), r.next + 1)
        ELSE Fail
ParseValue(toks, i) ==
    CASE TokAt(toks, i) = "{" ->
            IF TokAt(toks, i + 1) = "}" THEN Parsed(JDict(EmptyObj), i + 2)
            ELSE IF TokAt(toks, i + 1) = "members" /\ TokAt(toks, i + 2) = "}"
                 THEN Parsed(JDict(toks[i + 1].item), i + 3)
            ELSE Fail
      [] TokAt(toks, i) = "[" ->
            IF TokAt(toks, i + 1) = "]" THEN Parsed(JList(<<>>), i + 2)
            ELSE ParseElems(toks, i + 1, <<>>)
      [] TokAt(toks, i) = "string" -> Parsed(JStr(toks[i].s), i + 1)
      [] TokAt(toks, i) = "word" ->
            IF toks[i].s = "null" THEN Parsed(JNull, i + 1) ELSE Fail
      [] OTHER -> Fail

json_loads(toks) ==
    LET r == ParseValue(toks, 1)
    IN  IF r.ok /\ r.next = Len(toks) + 1 THEN r.val ELSE JError

\* str.lower() on the strings the completion may put in quotes
Lower(s) == CASE s = "NULL" -> "null"
              [] s = "Null" -> "null"
              [] OTHER -> s

(***************************************************************************)
(* caller.parse_natural_language_instructions, steps 8 and 9: validation   *)
(* of the parsed array.  The result is None, or the list of action dicts.  *)
(***************************************************************************)
ActionList(actions) == [k |-> "list", elems |-> actions]
Raised(exc) == [k |-> "raised", exc |-> exc]
Reject == [ok |-> FALSE, raised |-> FALSE]
Accept(action) == [ok |-> TRUE, raised |-> FALSE, action |-> action]
Propagate == [ok |-> FALSE, raised |-> TRUE]

\* parse_datetime(item.get(key, "")) if item.get(key) else None
ParseIfPresent(item, key) ==
    IF Truthy(Get(item, key, PyNone))
    THEN parse_datetime(Get(item, key, PyStr("")))
    ELSE PyNone

ValidateAdd(item) ==
    LET start_dt == parse_datetime(Get(item, "start_time", PyStr("")))
        end_dt == ParseIfPresent(item, "end_time")
    IN  IF TypeError \in {start_dt, end_dt} THEN Propagate
        ELSE IF ~Truthy(start_dt) THEN Reject
        ELSE Accept([intent |-> "add_schedule",
                     schedule_title |-> Get(item, "schedule_title", PyStr("")),
                     start_time |-> start_dt,
                     end_time |-> end_dt,
                     image |-> Get(item, "image", PyStr(""))])

ValidateUpdate(item) ==
    LET schedule_id == Get(item, "schedule_identifier", PyStr(""))
        new_title == Get(item, "new_title", PyNone)
        new_end == ParseIfPresent(item, "new_end_time")
        existing_start_dt == parse_datetime(Get(item, "existing_start_time", PyStr("")))
        new_start_dt == parse_datetime(Get(item, "new_start_time", PyStr("")))
    IN  IF TypeError \in {new_end, existing_start_dt, new_start_dt} THEN Propagate
        ELSE IF /\ ~Truthy(schedule_id) /\ ~Truthy(new_title)
                /\ ~Truthy(new_start_dt) /\ ~Truthy(new_end)
        THEN Reject
        ELSE Accept([intent |-> "update_schedule",
                     schedule_identifier |-> schedule_id,
                     existing_start_time |-> existing_start_dt,
                     new_title |-> new_title,
                     new_start_time |-> new_start_dt,
                     new_end_time |-> new_end])

ValidateDelete(item) ==
    LET schedule_id == Get(item, "schedule_identifier", PyStr(""))
        existing_start_dt == parse_datetime(Get(item, "existing_start_time", PyStr("")))
    IN  IF ~Truthy(schedule_id) THEN Reject
        ELSE IF existing_start_dt = TypeError THEN Propagate
        ELSE Accept([intent |-> "delete_schedule",
                     schedule_identifier |-> schedule_id,
                     existing_start_time |-> existing_start_dt])

\* one iteration of the loop over parsed_data
ValidateItem(elem) ==
    IF elem.k # "dict" THEN Reject
    ELSE LET intent == Get(elem.item, "intent", PyNone)
         IN  CASE intent = PyStr("add_schedule") -> ValidateAdd(elem.item)
               [] intent = PyStr("update_schedule") -> ValidateUpdate(elem.item)
               [] intent = PyStr("delete_schedule") -> ValidateDelete(elem.item)
               [] OTHER -> Reject

RECURSIVE ValidateLoop(_, _, _)
ValidateLoop(parsed_data, i, final_actions) ==
    IF i > Len(parsed_data)
    THEN (IF final_actions # <<>> THEN ActionList(final_actions) ELSE PyNone)
    ELSE LET r == ValidateItem(parsed_data[i])
         IN  IF r.raised THEN Raised("TypeError")
             ELSE IF ~r.ok THEN PyNone
             ELSE ValidateLoop(parsed_data, i + 1, Append(final_actions, r.action))

validate_actions(parsed_data) == ValidateLoop(parsed_data, 1, <<>>)

(***************************************************************************)
(* caller.parse_natural_language_instructions, steps 3 to 7.               *)
(* A completion outcome is a service error, or a response whose message    *)
(* content is a text or None.                                              *)
(***************************************************************************)
ServiceError == [status |-> "error"]
Response(content) == [status |-> "ok", content |-> content]
Text(toks) == [k |-> "text", toks |-> toks]

\* steps 5 to 9, on the extracted fragment
DecodeAndValidate(json_str) ==
    LET parsed_data == json_loads(json_str)
    IN  IF parsed_data.k = "JSONDecodeError" THEN PyNone
        ELSE IF parsed_data.k = "str" /\ Lower(parsed_data.s) = "null" THEN PyNone
        ELSE IF parsed_data.k # "list" THEN PyNone
        ELSE validate_actions(parsed_data.elems)

\* ParseAiText without "if not json_str: return None": json.loads(None)
ParseAiText_NoGuard(ai_text) ==
    LET json_str == extract_json_from_text(ai_text)
    IN  IF json_str = PyNone THEN Raised("TypeError")
        ELSE DecodeAndValidate(json_str.toks)

\* steps 4 to 9, on the text of the response
ParseAiText(ai_text) ==
    LET json_str == extract_json_from_text(ai_text)
    IN  IF json_str = PyNone THEN PyNone
        ELSE DecodeAndValidate(json_str.toks)

parse_natural_language_instructions(outcome) ==
    IF outcome.status = "error" THEN PyNone
    ELSE IF outcome.content = PyNone
         THEN Raised("AttributeError")   \* None.strip(), outside the try
    ELSE ParseAiText(outcome.content.toks)

(***************************************************************************)
(* The schedule store.  A document of the schedules collection is a record;*)
(* the collection is the sequence of its documents in insertion order      *)
(* (find_one returns the first match).  clock counts the writes: it gives  *)
(* an inserted document its ObjectId and every write its updated_at.       *)
(***************************************************************************)
Users == {"u1"}

NewDoc(id, payload, now) ==
    [id |-> id,
     user_id |-> payload.user_id,
     reminder_message |-> payload.reminder_message,
     schedule_date |-> payload.schedule_date,
     schedule_end_date |-> payload.schedule_end_date,
     status |-> payload.status,
     updated_at |-> now]

Ok(v) == [raised |-> FALSE, val |-> v]
Raise(exc) == [raised |-> TRUE, exc |-> exc]

\* schedule_record_model.add_record: the required fields, then
\* ScheduleRecord(date_time=record_data["date_time"], ...): no caller passes
\* "date_time" (KeyError) and ScheduleRecord takes no such argument (TypeError)
add_record(record_data) ==
    IF \E f \in {"user_id", "action", "schedule_id"} :
           f \notin DOMAIN record_data \/ ~Truthy(record_data[f])
    THEN Raise("Validation Error")
    ELSE IF "date_time" \notin DOMAIN record_data
    THEN Raise("Failed to add schedule record")     \* KeyError
    ELSE Raise("Failed to add schedule record")     \* TypeError

RecordData(user_id, action, schedule_id) ==
    ("user_id" :> PyStr(user_id)) @@ ("action" :> PyStr(action))
        @@ ("schedule_id" :> PyId(schedule_id))

\* schedule_model.create_schedule: validation, insert_one, add_record.
\* The result carries the collection after the call.  The service runs in UTC:
\* astimezone(timezone.utc) leaves the instant of a naive datetime as it is.
create_schedule(docs, now, payload) ==
    IF \/ ~Truthy(payload.reminder_message)
       \/ ~Truthy(payload.schedule_date)
       \/ ~Truthy(payload.schedule_end_date)
    THEN [raised |-> TRUE, exc |-> "Validation Error", docs |-> docs, id |-> 0]
    ELSE IF payload.schedule_date.k # "datetime" \/ payload.schedule_end_date.k # "datetime"
    THEN [raised |-> TRUE, exc |-> "Validation Error", docs |-> docs, id |-> 0]
    ELSE IF payload.schedule_end_date.t < payload.schedule_date.t
    THEN [raised |-> TRUE, exc |-> "Validation Error", docs |-> docs, id |-> 0]
    ELSE LET inserted == Append(docs, NewDoc(now, payload, now))
             rec == add_record(RecordData(payload.user_id, "create", now))
         IN  IF rec.raised
             THEN [raised |-> TRUE, exc |-> "Failed to create schedule",
                   docs |-> inserted, id |-> 0]
             ELSE [raised |-> FALSE, exc |-> "", docs |-> inserted, id |-> now]

\* collection.find_one(filter): the first document that matches, or None
Matches(docs, user_id, reminder_message, schedule_date) ==
    {i \in 1..Len(docs) :
        /\ docs[i].user_id = user_id
        /\ docs[i].reminder_message = reminder_message
        /\ docs[i].schedule_date = schedule_date}

\* schedule_model.find_schedule_by_name_and_datetime
find_schedule_by_name_and_datetime(docs, user_id, reminder_message, schedule_date) ==
    IF schedule_date.k # "datetime"
    THEN Raise("Failed to find schedule by name & datetime")
    ELSE LET m == Matches(docs, user_id, reminder_message, schedule_date)
         IN  IF m = {} THEN Ok(PyNone) ELSE Ok(docs[Min(m)])

\* find_one({"_id": ObjectId(schedule_id)})
WithId(docs, schedule_id) == {i \in 1..Len(docs) : docs[i].id = schedule_id}

\* BuildUpdates that sets the title whether or not one was given
BuildUpdates_AlwaysTitle(schedule_data) ==
    ("reminder_message" :> schedule_data.new_title)
    @@ (IF Truthy(schedule_data.new_start_time)
        THEN "schedule_date" :> schedule_data.new_start_time ELSE EmptyObj)
    @@ (IF Truthy(schedule_data.new_end_time)
        THEN "schedule_end_date" :> schedule_data.new_end_time ELSE EmptyObj)

\* actually_update_schedule: the sparse update map
BuildUpdates(schedule_data) ==
    (IF Truthy(schedule_data.new_title)
        THEN "reminder_message" :> schedule_data.new_title ELSE EmptyObj)
    @@ (IF Truthy(schedule_data.new_start_time)
        THEN "schedule_date" :> schedule_data.new_start_time ELSE EmptyObj)
    @@ (IF Truthy(schedule_data.new_end_time)
        THEN "schedule_end_date" :> schedule_data.new_end_time ELSE EmptyObj)

\* the instant of a stored date: a datetime, or the ISO string of one
\* (datetime.fromisoformat(x.isoformat()) = x)
Instant(v) == v.t

\* update_schedule: "schedule_end_date cannot be earlier than schedule_date"
DatesInOrder(doc, upd) ==
    LET sd == Get(upd, "schedule_date", doc.schedule_date)
        ed == Get(upd, "schedule_end_date", doc.schedule_end_date)
    IN  (Truthy(sd) /\ Truthy(ed)) => ~(Instant(ed) < Instant(sd))

\* Standardize that leaves a datetime a datetime
Standardize_Keep(v) == v

\* update_schedule: dates of the update map are stored as isoformat() text
Standardize(v) == IF v.k = "datetime" THEN PyIso(v.t) ELSE v

\* update_one({"_id": id}, {"$set": updates}) on one document
ApplySet(doc, upd, now) ==
    [doc EXCEPT
        !.reminder_message = Get(upd, "reminder_message", @),
        !.schedule_date = IF "schedule_date" \in DOMAIN upd
                          THEN Standardize(upd["schedule_date"]) ELSE @,
        !.schedule_end_date = IF "schedule_end_date" \in DOMAIN upd
                              THEN Standardize(upd["schedule_end_date"]) ELSE @,
        !.updated_at = now]

\* (a slip: the filter on _id is missing, every document is updated)
UpdateOne_All(docs, schedule_id, upd, now) ==
    [i \in 1..Len(docs) |-> ApplySet(docs[i], upd, now)]

UpdateOne(docs, schedule_id, upd, now) ==
    [i \in 1..Len(docs) |->
        IF docs[i].id = schedule_id THEN ApplySet(docs[i], upd, now) ELSE docs[i]]

\* delete_one({"_id": id})
RECURSIVE DeleteOne(_, _)
DeleteOne(docs, schedule_id) ==
    IF docs = <<>> THEN <<>>
    ELSE IF Head(docs).id = schedule_id THEN Tail(docs)
    ELSE <<Head(docs)>> \o DeleteOne(Tail(docs), schedule_id)

(***************************************************************************)
(* The chat sessions (chat_model).  A document of the chats collection is  *)
(* a record; the collection is the sequence of its documents.  A message   *)
(* is a role and a content; a text is the sequence of its tokens.          *)
(***************************************************************************)
Msg(role, content) == [role |-> role, content |-> content]

Modes == {"chat", "call"}

\* create_new_chat_with_system_prompt: in "call" mode system_prompt is a
\* string, in "chat" mode the braces around the f-string make it a set
system_prompt(conversation_type) ==
    IF conversation_type = "call" THEN Text(<<Tok("rules")>>) ELSE [k |-> "set"]

\* ChatModel.__init__(user_id, assistant_id, messages=None, ...)
ChatModelParams ==
    {"user_id", "assistant_id", "messages", "summary_so_far", "pending_schedule",
     "pending_schedule_step", "conversation_type", "created_at", "updated_at"}
ChatModelRequired == {"user_id", "assistant_id"}

\* chat_model.create_chat: ChatModel(**chat_data), then insert_one, which
\* cannot encode a set.  The result carries the collection after the call.
create_chat(docs, now, chat_data) ==
    IF \/ ~(DOMAIN chat_data \subseteq ChatModelParams)
       \/ ~(ChatModelRequired \subseteq DOMAIN chat_data)
    THEN [raised |-> TRUE, exc |-> "Failed to create chat", docs |-> docs, id |-> 0]
    ELSE IF \E i \in 1..Len(chat_data.messages) : chat_data.messages[i].content.k = "set"
    THEN [raised |-> TRUE, exc |-> "Failed to create chat", docs |-> docs, id |-> 0]
    ELSE [raised |-> FALSE, exc |-> "", id |-> now,
          docs |-> Append(docs, [id |-> now, user_id |-> chat_data.user_id,
                                 messages |-> chat_data.messages,
                                 summary_so_far |-> PyNone,
                                 conversation_type |-> chat_data.conversation_type,
                                 updated_at |-> now])]

\* create_new_chat_with_system_prompt: the chat_data handed to create_chat
NewChatData(user_id, conversation_type) ==
    [user_id |-> user_id,
     messages |-> <<Msg("system", system_prompt(conversation_type))>>,
     title |-> "Chat with Remindria",
     conversation_type |-> conversation_type]

\* chat_model.find_chat_by_id
ChatsWithId(docs, chat_id) == {i \in 1..Len(docs) : docs[i].id = chat_id}
find_chat_by_id(docs, chat_id) ==
    IF ChatsWithId(docs, chat_id) = {} THEN PyNone
    ELSE docs[Min(ChatsWithId(docs, chat_id))]

\* chat_model.add_message_to_chat: $push messages, $set updated_at
add_message_to_chat(docs, chat_id, message, now) ==
    [i \in 1..Len(docs) |->
        IF docs[i].id = chat_id
        THEN [docs[i] EXCEPT !.messages = Append(@, message), !.updated_at = now]
        ELSE docs[i]]

\* chat_model.store_summary_in_chat: $set summary_so_far and updated_at
store_summary_in_chat(docs, chat_id, summary, now) ==
    [i \in 1..Len(docs) |->
        IF docs[i].id = chat_id
        THEN [docs[i] EXCEPT !.summary_so_far = summary, !.updated_at = now]
        ELSE docs[i]]

\* maybe_proactive_trimming: the two lists the history is split into
MAX_RECENT == 8
IsSystem(m) == m.role = "system"
IsUserAssistant(m) == m.role \in {"user", "assistant"}
\* (a slip: the system messages are left out of the window)
system_msgs_Dropped(conversation_history) == <<>>
system_msgs(conversation_history) == SelectSeq(conversation_history, IsSystem)
user_assistant_msgs(conversation_history) ==
    SelectSeq(conversation_history, IsUserAssistant)
older_count(conversation_history) ==
    Len(user_assistant_msgs(conversation_history)) - MAX_RECENT
older_chunk(conversation_history) ==
    SubSeq(user_assistant_msgs(conversation_history), 1,
           older_count(conversation_history))
recent_chunk(conversation_history) ==
    SubSeq(user_assistant_msgs(conversation_history),
           older_count(conversation_history) + 1,
           Len(user_assistant_msgs(conversation_history)))

\* (a slip: the new text replaces the stored summary)
combined_summary_Overwrite(existing_summary, summary_text) == Ok(summary_text)

\* existing_summary + "\n\n" + summary_text if existing_summary else summary_text
\* (str + None raises TypeError)
combined_summary(existing_summary, summary_text) ==
    IF existing_summary.toks = <<>> THEN Ok(summary_text)
    ELSE IF summary_text.k # "text" THEN Raise("TypeError")
    ELSE Ok(Text(existing_summary.toks \o <<Tok("\n\n")>> \o summary_text.toks))

\* helper.extract_speak_block: (<speak>.*?</speak>) with IGNORECASE, the
\* leftmost opening tag that has a closing tag after it, up to the nearest
\* closing tag; "" when there is none
OpensSpeak(tok) == tok.t \in {"<speak>", "<SPEAK>"}
ClosesSpeak(tok) == tok.t \in {"</speak>", "</SPEAK>"}
SpeakEnds(text, i) == {j \in (i + 1)..Len(text) : ClosesSpeak(text[j])}
SpeakStarts(text) ==
    {i \in 1..Len(text) : OpensSpeak(text[i]) /\ SpeakEnds(text, i) # {}}
extract_speak_block(text) ==
    IF SpeakStarts(text) = {} THEN <<>>
    ELSE SubSeq(text, Min(SpeakStarts(text)),
                Min(SpeakEnds(text, Min(SpeakStarts(text)))))

\* str.strip(): white space at the two ends is removed
RECURSIVE LStrip(_)
LStrip(text) ==
    IF text # <<>> /\ Head(text).t = " " THEN LStrip(Tail(text)) ELSE text
RECURSIVE RStrip(_)
RStrip(text) ==
    IF text # <<>> /\ text[Len(text)].t = " "
    THEN RStrip(SubSeq(text, 1, Len(text) - 1)) ELSE text
Strip(text) == RStrip(LStrip(text))

(***************************************************************************)
(* State.  A process is one request being served (chat_view.chat); proc[p] *)
(* holds its locals.  parsed_data / final_actions are the argument and the *)
(* result of the validation loop when it is exercised on its own.          *)
(* Of the fields of proc[p], snap is the store when the request began,     *)
(* round says whether the actions are being executed the first or the      *)
(* second time, first holds the outcomes of the first time and mid the     *)
(* store between the two; data is the request body, loaded the session as *)
(* get_or_create_chat found it, summarized the messages sent for           *)
(* summarization, content the completion that worded the last outcome,     *)
(* schedules the list handed to parse_natural_language_instructions,       *)
(* responses the list all_responses.                                       *)
(***************************************************************************)
VARIABLES store, chats, clock, proc, parsed_data, final_actions

vars == <<store, chats, clock, proc, parsed_data, final_actions>>

Procs == {1, 2}

NoCompletion == [status |-> "none"]
NoAct == [intent |-> "none"]
NoResponse == [status |-> 0]
NotRun == [k |-> "notrun"]
NoRequest == [chat_id |-> 0, prompt |-> PyNone, type |-> ""]
\* the messages summarize_with_ai was called with
Sent(msgs) == [k |-> "sent", msgs |-> msgs]

IdleProc ==
    [pc |-> "idle", user |-> "", completion |-> NoCompletion,
     intent_result |-> PyNone, queue |-> <<>>, act |-> NoAct, sid |-> 0,
     updates |-> EmptyObj, outcomes |-> <<>>, response |-> NoResponse,
     round |-> 0, first |-> <<>>, snap |-> <<>>, mid |-> <<>>,
     chat_id |-> 0, prompt |-> Text(<<>>), conversation_type |-> "chat",
     conversation_history |-> <<>>, loaded |-> PyNone, summarized |-> NotRun,
     summary_text |-> PyNone, existing_summary |-> Text(<<>>),
     responses |-> <<>>, data |-> NoRequest, content |-> PyNone,
     schedules |-> PyNone]

\* the arguments generate_action_response is called with
Outcome(action_type, success, details, created_id) ==
    [action_type |-> action_type, success |-> success,
     details |-> details, created_id |-> created_id]

\* writes still to come from the request a process is serving: for every
\* action a schedule and a message, for a reply a summary and a message
Pending(q) ==
    2 * Len(proc[q].queue)
    + (IF proc[q].pc \in {"create", "resolve", "upd_find", "upd_write",
                          "del_find", "del_write"} THEN 2 ELSE 0)
    + (IF proc[q].pc \in {"parse", "reply", "store_summary"} THEN 2 ELSE 0)
    + (IF proc[q].pc \in {"render", "respond"} THEN 1 ELSE 0)
PendingAll == Pending(1) + Pending(2)

Set(p, r) == proc' = [proc EXCEPT ![p] = r]

(***************************************************************************)
(* chat_view.chat                                                          *)
(***************************************************************************)
\* schedule_view.get_30_day_schedules_for_user: the schedules of the user
\* within 30 days of now (every time of the model is)
OwnedBy(user_id, doc) == doc.user_id = user_id
get_30_day_schedules_for_user(docs, user_id) ==
    [k |-> "list", elems |-> SelectSeq(docs, LAMBDA doc : OwnedBy(user_id, doc))]

\* get_or_create_chat for a request of user u: the session, its messages and
\* the schedules (None for a session that exists), or the status the request
\* ends with
OpenChat(u, data) ==
    LET chat_data == NewChatData(u, data.type)
        created == create_chat(chats, clock + 1, chat_data)
        chat == find_chat_by_id(chats, data.chat_id)
    IN  IF data.chat_id = 0
        THEN IF created.raised THEN [status |-> 500]
             ELSE [status |-> 200, docs |-> created.docs, chat_id |-> created.id,
                   messages |-> chat_data.messages, now |-> clock + 1,
                   loaded |-> PyNone,
                   schedules |-> get_30_day_schedules_for_user(store, u)]
        ELSE IF chat = PyNone \/ chat.user_id # u THEN [status |-> 404]
        ELSE [status |-> 200, docs |-> chats, chat_id |-> data.chat_id,
              messages |-> chat.messages, now |-> clock, loaded |-> chat,
              schedules |-> PyNone]

\* steps 1 and 2 of a request whose fields passed the checks:
\* get_or_create_chat, append_user_message; r is the process after them
LoadChat(p, u, data, r) ==
    LET o == OpenChat(u, data)
        user_msg == Msg("user", data.prompt)
        q == [r EXCEPT !.user = u, !.data = data, !.prompt = data.prompt,
                       !.conversation_type = data.type, !.round = 1,
                       !.snap = store]
    IN  IF o.status # 200
        THEN /\ Set(p, [q EXCEPT !.pc = "done", !.response = [status |-> o.status],
                                 !.completion = NoCompletion,
                                 !.intent_result = PyNone, !.queue = <<>>])
             /\ UNCHANGED <<chats, clock>>
        ELSE /\ chats' = add_message_to_chat(o.docs, o.chat_id, user_msg, o.now + 1)
             /\ clock' = o.now + 1
             /\ Set(p, [q EXCEPT !.chat_id = o.chat_id, !.loaded = o.loaded,
                                 !.schedules = o.schedules,
                                 !.conversation_history = Append(o.messages, user_msg)])

\* steps 1 and 2; the completion service will answer the extraction call
\* with `out`
BeginChat(p, u, data, out) ==
    /\ proc[p].pc = "idle"
    /\ clock + PendingAll + 3 <= MaxClock
    /\ LoadChat(p, u, data, [IdleProc EXCEPT !.pc = "parse", !.completion = out])
    /\ UNCHANGED <<store, parsed_data, final_actions>>

\* if intent_result: a non-empty list
IntentFound(r) == r.k = "list" /\ r.elems # <<>>

\* step 3: intent_result = parse_natural_language_instructions(...)
ParseStep(p) ==
    /\ proc[p].pc = "parse"
    /\ LET r == parse_natural_language_instructions(proc[p].completion)
       IN  Set(p, [proc[p] EXCEPT
                     !.intent_result = r,
                     !.queue = IF IntentFound(r) THEN r.elems ELSE <<>>,
                     !.pc = IF r.k = "raised" THEN "done"
                            ELSE IF IntentFound(r) THEN "dispatch" ELSE "reply",
                     !.response = IF r.k = "raised" THEN [status |-> 500]
                                  ELSE NoResponse])
    /\ UNCHANGED <<store, chats, clock, parsed_data, final_actions>>

\* steps 1 and 2, and step 4 entered with the extraction result `actions`
BeginActions(p, u, data, actions) ==
    /\ proc[p].pc = "idle"
    /\ clock + PendingAll + 1 + 2 * Len(actions) <= MaxClock
    /\ LoadChat(p, u, data, [IdleProc EXCEPT !.pc = "dispatch",
                                             !.intent_result = ActionList(actions),
                                             !.queue = actions])
    /\ UNCHANGED <<store, parsed_data, final_actions>>

\* step 4: for action_dict in intent_result
Dispatch(p) ==
    /\ proc[p].pc = "dispatch"
    /\ IF proc[p].queue = <<>>
       THEN /\ Set(p, [proc[p] EXCEPT
                         !.pc = "done",
                         !.response = [status |-> 200, response |-> proc[p].responses]])
            /\ UNCHANGED <<chats, clock>>
       ELSE LET a == Head(proc[p].queue)
                rest == Tail(proc[p].queue)
                reply == Msg("assistant", Text(<<Tok("I'm missing details")>>))
            IN  IF a.intent = "add_schedule"
                THEN IF Truthy(a.schedule_title) /\ Truthy(a.start_time)
                     THEN /\ Set(p, [proc[p] EXCEPT !.pc = "create", !.act = a,
                                                    !.queue = rest])
                          /\ UNCHANGED <<chats, clock>>
                     ELSE \* "I'm missing details": a reply, no executor call
                          /\ chats' = add_message_to_chat(chats, proc[p].chat_id,
                                                          reply, clock + 1)
                          /\ clock' = clock + 1
                          /\ Set(p, [proc[p] EXCEPT
                                       !.queue = rest,
                                       !.outcomes = Append(@, NotRun),
                                       !.conversation_history = Append(@, reply),
                                       !.responses = Append(@, reply.content)])
                ELSE /\ Set(p, [proc[p] EXCEPT !.pc = "resolve", !.act = a,
                                               !.queue = rest])
                     /\ UNCHANGED <<chats, clock>>
    /\ UNCHANGED <<store, parsed_data, final_actions>>

\* the executor hands its outcome to generate_action_response
ToRender(r, o) == [r EXCEPT !.pc = "render", !.outcomes = Append(@, o)]

(***************************************************************************)
(* chat_view.actually_create_schedule                                      *)
(***************************************************************************)
Payload(u, a) ==
    [user_id |-> u, reminder_message |-> a.schedule_title,
     schedule_date |-> a.start_time, schedule_end_date |-> a.end_time,
     status |-> "Pending"]

CreateStep(p) ==
    /\ proc[p].pc = "create"
    /\ LET a == proc[p].act
           r == create_schedule(store, clock + 1, Payload(proc[p].user, a))
       IN  /\ store' = r.docs
           /\ clock' = IF r.docs # store THEN clock + 1 ELSE clock
           /\ IF r.raised
              THEN Set(p, ToRender(proc[p], Outcome("create", FALSE, r.exc, 0)))
              ELSE IF a.end_time.k # "datetime"
              THEN \* end_dt.isoformat() on None
                   Set(p, ToRender(proc[p], Outcome("create", FALSE, "AttributeError", 0)))
              ELSE Set(p, ToRender(proc[p], Outcome("create", TRUE, "", r.id)))
    /\ UNCHANGED <<chats, parsed_data, final_actions>>

(***************************************************************************)
(* chat_view.actually_update_schedule / actually_delete_schedule           *)
(***************************************************************************)
ActionType(a) == IF a.intent = "update_schedule" THEN "update" ELSE "delete"

\* find_schedule_by_name_and_datetime, and for an update the update map
Resolve(p) ==
    /\ proc[p].pc = "resolve"
    /\ LET a == proc[p].act
           f == find_schedule_by_name_and_datetime(
                    store, proc[p].user, a.schedule_identifier, a.existing_start_time)
           upd == IF a.intent = "update_schedule" THEN BuildUpdates(a) ELSE EmptyObj
           fail(d) == Set(p, ToRender(proc[p], Outcome(ActionType(a), FALSE, d, 0)))
       IN  IF f.raised THEN fail(f.exc)
           ELSE IF f.val = PyNone THEN fail("Could not find a schedule")
           ELSE IF a.intent = "update_schedule" /\ upd = EmptyObj
                THEN fail("No new changes provided")
           ELSE Set(p, [proc[p] EXCEPT
                          !.sid = f.val.id, !.updates = upd,
                          !.pc = IF a.intent = "update_schedule"
                                 THEN "upd_find" ELSE "del_find"])
    /\ UNCHANGED <<store, chats, clock, parsed_data, final_actions>>

\* schedule_model.update_schedule up to the date check
UpdFind(p) ==
    /\ proc[p].pc = "upd_find"
    /\ LET m == WithId(store, proc[p].sid)
           fail(d) == Set(p, ToRender(proc[p], Outcome("update", FALSE, d, 0)))
       IN  IF m = {} THEN fail("Validation Error")      \* No schedule found with ID
           ELSE IF ~DatesInOrder(store[Min(m)], proc[p].updates)
                THEN fail("Validation Error")
           ELSE Set(p, [proc[p] EXCEPT !.pc = "upd_write"])
    /\ UNCHANGED <<store, chats, clock, parsed_data, final_actions>>

\* update_one, add_record, and the caller's check of the count
UpdWrite(p) ==
    /\ proc[p].pc = "upd_write"
    /\ LET modified_count == Cardinality(WithId(store, proc[p].sid))
           rec == add_record(RecordData("None", "update", proc[p].sid))
           fail(d) == Set(p, ToRender(proc[p], Outcome("update", FALSE, d, 0)))
       IN  /\ store' = UpdateOne(store, proc[p].sid, proc[p].updates, clock + 1)
           /\ clock' = IF modified_count > 0 THEN clock + 1 ELSE clock
           /\ IF modified_count > 0 /\ rec.raised
              THEN fail("Failed to update schedule with ID")
              ELSE IF modified_count = 0 THEN fail("Failed to update schedule")
              ELSE Set(p, ToRender(proc[p], Outcome("update", TRUE, "", 0)))
    /\ UNCHANGED <<chats, parsed_data, final_actions>>

\* schedule_model.delete_schedule up to the lookup by id
DelFind(p) ==
    /\ proc[p].pc = "del_find"
    /\ IF WithId(store, proc[p].sid) = {}
       THEN Set(p, ToRender(proc[p], Outcome("delete", FALSE, "Validation Error", 0)))
       ELSE Set(p, [proc[p] EXCEPT !.pc = "del_write"])
    /\ UNCHANGED <<store, chats, clock, parsed_data, final_actions>>

\* (a slip: the deleted count is not looked at)
DelWrite_IgnoreCount(p) ==
    /\ proc[p].pc = "del_write"
    /\ LET deleted_count == Cardinality(WithId(store, proc[p].sid))
           owner == IF deleted_count > 0
                    THEN store[Min(WithId(store, proc[p].sid))].user_id
                    ELSE proc[p].user
           rec == add_record(RecordData(owner, "delete", proc[p].sid))
           fail(d) == Set(p, ToRender(proc[p], Outcome("delete", FALSE, d, 0)))
       IN  /\ store' = DeleteOne(store, proc[p].sid)
           /\ IF deleted_count > 0 /\ rec.raised
              THEN fail("Failed to delete schedule with ID")
              ELSE Set(p, ToRender(proc[p], Outcome("delete", TRUE, "", 0)))
    /\ UNCHANGED <<chats, clock, parsed_data, final_actions>>

\* delete_one, add_record, and the caller's check of the count
DelWrite(p) ==
    /\ proc[p].pc = "del_write"
    /\ LET deleted_count == Cardinality(WithId(store, proc[p].sid))
           owner == IF deleted_count > 0
                    THEN store[Min(WithId(store, proc[p].sid))].user_id
                    ELSE proc[p].user
           rec == add_record(RecordData(owner, "delete", proc[p].sid))
           fail(d) == Set(p, ToRender(proc[p], Outcome("delete", FALSE, d, 0)))
       IN  /\ store' = DeleteOne(store, proc[p].sid)
           /\ IF deleted_count > 0 /\ rec.raised
              THEN fail("Failed to delete schedule with ID")
              ELSE IF deleted_count = 0 THEN fail("Failed to delete schedule")
              ELSE Set(p, ToRender(proc[p], Outcome("delete", TRUE, "", 0)))
    /\ UNCHANGED <<chats, clock, parsed_data, final_actions>>

(***************************************************************************)
(* caller.generate_action_response, and the rest of the turn               *)
(***************************************************************************)
\* the completion call that words the outcome (`out` is what the service
\* answers), and the lines of the loop in chat() that follow the executor.
\* In the try block a failure of the call is caught by the executor's except
\* clause, which words a failure instead; in the except clause it leaves the
\* executor and chat() answers 500.
Render(p, out) ==
    /\ proc[p].pc = "render"
    /\ LET n == Len(proc[p].outcomes)
           raises == out.status = "error" \/ out.content = PyNone   \* None.strip()
           ai_text == IF proc[p].conversation_type = "call"
                      THEN extract_speak_block(Strip(out.content.toks))
                      ELSE Strip(out.content.toks)
           ai_msg == Msg("assistant", Text(ai_text))
       IN  IF raises
           THEN /\ IF proc[p].outcomes[n].success
                   THEN Set(p, [proc[p] EXCEPT
                                  !.outcomes[n] =
                                     Outcome(@.action_type, FALSE, "completion failed", 0)])
                   ELSE Set(p, [proc[p] EXCEPT !.pc = "done",
                                               !.response = [status |-> 500]])
                /\ UNCHANGED <<chats, clock>>
           ELSE /\ chats' = add_message_to_chat(chats, proc[p].chat_id, ai_msg, clock + 1)
                /\ clock' = clock + 1
                /\ Set(p, [proc[p] EXCEPT
                             !.pc = "dispatch",
                             !.content = out.content,
                             !.conversation_history = Append(@, ai_msg),
                             !.responses = Append(@, ai_msg.content)])
    /\ UNCHANGED <<store, parsed_data, final_actions>>

\* (a slip: the window is cut before summarize_with_ai is called)
Summarize_CutFirst(p, out) ==
    /\ proc[p].pc = "reply"
    /\ LET h == proc[p].conversation_history
           existing_chat == find_chat_by_id(chats, proc[p].chat_id)
       IN  IF Len(user_assistant_msgs(h)) <= MAX_RECENT
           THEN Set(p, [proc[p] EXCEPT !.pc = "respond"])
           ELSE IF out.status = "error" \/ existing_chat = PyNone
           THEN Set(p, [proc[p] EXCEPT !.pc = "done", !.response = [status |-> 500],
                                       !.summarized = Sent(older_chunk(h)),
                                       !.conversation_history =
                                          system_msgs(h) \o recent_chunk(h)])
           ELSE Set(p, [proc[p] EXCEPT
                          !.pc = "store_summary",
                          !.summarized = Sent(older_chunk(h)),
                          !.summary_text = out.content,
                          !.existing_summary =
                             IF Truthy(existing_chat.summary_so_far)
                             THEN existing_chat.summary_so_far ELSE Text(<<>>)])
    /\ UNCHANGED <<store, chats, clock, parsed_data, final_actions>>

\* step 5, maybe_proactive_trimming up to the read of the stored summary:
\* summarize_with_ai(older_chunk), answered by the service with `out`, and
\* find_chat_by_id
Summarize(p, out) ==
    /\ proc[p].pc = "reply"
    /\ LET h == proc[p].conversation_history
           existing_chat == find_chat_by_id(chats, proc[p].chat_id)
       IN  IF Len(user_assistant_msgs(h)) <= MAX_RECENT
           THEN Set(p, [proc[p] EXCEPT !.pc = "respond"])
           ELSE IF out.status = "error" \/ existing_chat = PyNone
           THEN Set(p, [proc[p] EXCEPT !.pc = "done", !.response = [status |-> 500],
                                       !.summarized = Sent(older_chunk(h))])
           ELSE Set(p, [proc[p] EXCEPT
                          !.pc = "store_summary",
                          !.summarized = Sent(older_chunk(h)),
                          !.summary_text = out.content,
                          !.existing_summary =
                             IF Truthy(existing_chat.summary_so_far)
                             THEN existing_chat.summary_so_far ELSE Text(<<>>)])
    /\ UNCHANGED <<store, chats, clock, parsed_data, final_actions>>

\* maybe_proactive_trimming from combined_summary on: store_summary_in_chat,
\* and the history becomes the system messages and the recent chunk
StoreSummary(p) ==
    /\ proc[p].pc = "store_summary"
    /\ LET h == proc[p].conversation_history
           c == combined_summary(proc[p].existing_summary, proc[p].summary_text)
       IN  IF c.raised
           THEN /\ Set(p, [proc[p] EXCEPT !.pc = "done",
                                          !.response = [status |-> 500]])
                /\ UNCHANGED <<chats, clock>>
           ELSE /\ chats' = store_summary_in_chat(chats, proc[p].chat_id, c.val,
                                                  clock + 1)
                /\ clock' = clock + 1
                /\ Set(p, [proc[p] EXCEPT
                             !.pc = "respond",
                             !.conversation_history = system_msgs(h) \o recent_chunk(h)])
    /\ UNCHANGED <<store, parsed_data, final_actions>>

\* steps 5 and 6 after the trimming: get_ai_response, answered by the service
\* with `out`, the <speak> block in a call, add_message_to_chat
Reply(p, out) ==
    /\ proc[p].pc = "respond"
    /\ LET h == proc[p].conversation_history
           fail(status) == /\ Set(p, [proc[p] EXCEPT !.pc = "done",
                                          !.response = [status |-> status]])
                           /\ UNCHANGED <<chats, clock>>
           ai_response == out.content
           \* get_ai_response appends its answer to the history it was given
           h1 == Append(h, Msg("assistant", ai_response))
           cleaned_response == Text(extract_speak_block(ai_response.toks))
           final_ai_msg == IF proc[p].conversation_type = "call"
                           THEN (IF ~Truthy(cleaned_response) THEN ai_response
                                 ELSE cleaned_response)
                           ELSE ai_response
           ai_msg == Msg("assistant", final_ai_msg)
       IN  IF Strip(proc[p].prompt.toks) = <<>> THEN fail(400)     \* ValueError
           ELSE IF out.status = "error" THEN fail(500)
           ELSE IF proc[p].conversation_type = "call" /\ ai_response = PyNone
           THEN fail(500)                                         \* TypeError
           ELSE /\ chats' = add_message_to_chat(chats, proc[p].chat_id, ai_msg, clock + 1)
                /\ clock' = clock + 1
                /\ Set(p, [proc[p] EXCEPT
                             !.pc = "done",
                             !.conversation_history = Append(h1, ai_msg),
                             !.response = [status |-> 200, response |-> final_ai_msg]])
    /\ UNCHANGED <<store, parsed_data, final_actions>>

\* the response is sent
Return(p) ==
    /\ proc[p].pc = "done"
    /\ Set(p, IdleProc)
    /\ UNCHANGED <<store, chats, clock, parsed_data, final_actions>>

\* a later turn of the session on which the same actions are executed once
\* more, directly after the first time
Replay(p) ==
    /\ proc[p].pc = "done"
    /\ proc[p].round = 1
    /\ proc[p].completion = NoCompletion
    /\ proc[p].response.status = 200
    /\ clock + PendingAll + 1 + 2 * Len(proc[p].intent_result.elems) <= MaxClock
    /\ LET user_msg == Msg("user", proc[p].prompt)
           chat == find_chat_by_id(chats, proc[p].chat_id)
       IN  /\ chats' = add_message_to_chat(chats, proc[p].chat_id, user_msg, clock + 1)
           /\ clock' = clock + 1
           /\ Set(p, [proc[p] EXCEPT
                        !.pc = "dispatch", !.round = 2,
                        !.queue = proc[p].intent_result.elems,
                        !.first = proc[p].outcomes, !.outcomes = <<>>,
                        !.mid = store, !.act = NoAct, !.sid = 0,
                        !.updates = EmptyObj, !.response = NoResponse,
                        !.loaded = chat, !.responses = <<>>,
                        !.conversation_history = Append(chat.messages, user_msg)])
    /\ UNCHANGED <<store, parsed_data, final_actions>>

\* the validation loop on a parsed array
ValidateStep ==
    /\ final_actions = NotRun
    /\ parsed_data # NotRun
    /\ final_actions' = validate_actions(parsed_data.elems)
    /\ UNCHANGED <<store, chats, clock, proc, parsed_data>>

(***************************************************************************)
(* Inputs.                                                                 *)
(***************************************************************************)
SeqsUpTo(S, n) == UNION {[1..m -> S] : m \in 0..n}

\* JSON strings of the time fields (PyNone in a field is the JSON null)
TimeStrings ==
    {PyStr("2024-03-01 10:00:00"), PyStr("2024-03-01T11:00:00"),
     PyStr("03/01/2024 10:00"), PyStr("March 1 2024 at 11am"),
     PyStr("banana"), PyStr("")}
GoodTime == PyStr("2024-03-01 10:00:00")
LaterTime == PyStr("2024-03-01 11:00:00")

\* objects the validation loop is exercised on
ValItems ==
    {AddItem(t, s, e) : t \in {ABSENT, PyStr("A")},
                        s \in {ABSENT, PyNone} \cup TimeStrings,
                        e \in {ABSENT, LaterTime}}
    \cup {UpdateItem(i, x, nt, ns, ne) :
             i \in {ABSENT, PyStr("A")}, x \in {ABSENT, PyNone, GoodTime},
             nt \in {ABSENT, PyStr("B")}, ns \in {ABSENT, LaterTime},
             ne \in {ABSENT, LaterTime}}
    \cup {DeleteItem(i, x) : i \in {ABSENT, PyStr("A")},
                             x \in {ABSENT, GoodTime, PyStr("banana")}}
    \cup {OtherItem, EmptyObj}
ValElems == {JDict(i) : i \in ValItems} \cup {JStr("add_schedule")}
ParsedArrays == {JList(es) : es \in SeqsUpTo(ValElems, MaxBatch)}

\* completion texts
ConfirmedAdd == AddItem(PyStr("A"), GoodTime, LaterTime)
TextItems ==
    {ConfirmedAdd,
     AddItem(PyStr("A"), PyStr("banana"), ABSENT),
     UpdateItem(PyStr("A"), GoodTime, PyStr("B"), ABSENT, ABSENT),
     DeleteItem(PyStr("A"), GoodTime),
     DeleteItem(ABSENT, GoodTime),
     OtherItem}
TextElems == {JDict(i) : i \in TextItems} \cup {JStr("add_schedule")}
JsonValues ==
    {JNull} \cup {JStr(w) : w \in {"null", "NULL", "Null", "ok"}}
    \cup {JDict(i) : i \in TextItems \cup {EmptyObj}}
    \cup {JList(es) : es \in SeqsUpTo(TextElems, MaxBatch)}
Malformed ==
    {<<WordTok("NULL")>>, <<WordTok("Null")>>, <<Tok("prose")>>, <<>>,
     <<Tok("{")>>, <<Tok("}"), Tok("{")>>,
     <<Tok("["), Tok("{"), MembersTok(ConfirmedAdd)>>,
     <<Tok("{"), MembersTok(ConfirmedAdd), Tok("}"), Tok("}")>>}
Cores == {RenderJson(v) : v \in JsonValues} \cup Malformed
Affixes == {<<>>, <<Tok("prose")>>}
Fenced(core, f) ==
    IF f THEN <<Tok("fence_open")>> \o core \o <<Tok("fence_close")>> ELSE core
Texts == {pre \o Fenced(core, f) \o post :
             pre \in Affixes, core \in Cores, f \in BOOLEAN, post \in Affixes}
CompletionOutcomes ==
    {ServiceError, Response(PyNone)} \cup {Response(Text(t)) : t \in Texts}

\* the completion outputs the turns of the full model draw from
ChatOutputs ==
    {ServiceError, Response(PyNone),
     Response(Text(<<WordTok("null")>>)), Response(Text(<<StringTok("NULL")>>)),
     Response(Text(RenderJson(JList(<<JDict(ConfirmedAdd)>>)))),
     Response(Text(RenderJson(JDict(ConfirmedAdd))))}

\* validated actions handed to the executors
OptTimes == {PyNone} \cup {PyDt(t) : t \in Times}
AddActions ==
    {[intent |-> "add_schedule", schedule_title |-> t, start_time |-> s,
      end_time |-> e, image |-> PyStr("")] :
        t \in {PyStr(""), PyStr("A")}, s \in {PyDt(t) : t \in Times}, e \in OptTimes}
UpdateActions ==
    {[intent |-> "update_schedule", schedule_identifier |-> PyStr("A"),
      existing_start_time |-> x, new_title |-> nt, new_start_time |-> ns,
      new_end_time |-> ne] :
        x \in {PyNone, PyDt(1)}, nt \in {PyNone, PyStr("A"), PyStr("B")},
        ns \in OptTimes, ne \in OptTimes}
DeleteActions ==
    {[intent |-> "delete_schedule", schedule_identifier |-> i,
      existing_start_time |-> x] :
        i \in {PyStr("A"), PyStr("B")}, x \in OptTimes}
ExecActions == AddActions \cup UpdateActions \cup DeleteActions

\* requests: the session addressed (0: none), the prompt, the mode
Hi == Text(<<Tok("hi")>>)
Request(chat_id, prompt, type) == [chat_id |-> chat_id, prompt |-> prompt, type |-> type]
TextRequest == Request(1, Hi, "chat")

\* a session as the collection holds it: the system message, then n
\* user/assistant messages in turn
Contents == <<"m1", "m2", "m3", "m4", "m5", "m6", "m7", "m8", "m9", "m10">>
Turns(n) ==
    [i \in 1..n |-> Msg(IF i % 2 = 1 THEN "user" ELSE "assistant",
                         Text(<<Tok(Contents[i])>>))]
Session(id, user_id, n, summary) ==
    [id |-> id, user_id |-> user_id,
     messages |-> <<Msg("system", Text(<<Tok("rules")>>))>> \o Turns(n),
     summary_so_far |-> summary, conversation_type |-> "chat", updated_at |-> 0]

\* what the completion service answers when it is asked to word an outcome or
\* a reply
PlainOutcomes == {ServiceError, Response(Text(<<Tok("Done.")>>))}
SpeechTexts ==
    {<<Tok("Done.")>>,
     <<>>,
     <<Tok(" "), Tok("Done."), Tok(" ")>>,
     <<Tok("<speak>"), Tok("Done."), Tok("</speak>")>>,
     <<Tok("Sure:"), Tok("<SPEAK>"), Tok("a"), Tok("</speak>"),
       Tok("<speak>"), Tok("b"), Tok("</speak>"), Tok("bye")>>,
     <<Tok("</speak>"), Tok("<speak>"), Tok("Done.")>>}
SpeechOutcomes ==
    {ServiceError, Response(PyNone)} \cup {Response(Text(t)) : t \in SpeechTexts}

\* what it answers when it is asked for a summary
SummaryOutcomes ==
    {ServiceError, Response(PyNone), Response(Text(<<>>)),
     Response(Text(<<Tok("S1")>>)), Response(Text(<<Tok("S2")>>))}

(***************************************************************************)
(* Specifications.                                                         *)
(***************************************************************************)
InitProcs == proc = [p \in Procs |-> IdleProc]

\* a store that holds one schedule
RaceStore ==
    <<NewDoc(1, Payload("u1", [schedule_title |-> PyStr("A"), start_time |-> PyDt(1),
                               end_time |-> PyDt(2)]), 1)>>

\* the full model: one request at a time, on the session of a user whose
\* store is empty or holds one schedule
Init ==
    /\ store \in {<<>>, RaceStore}
    /\ chats = <<Session(1, "u1", 0, PyNone)>>
    /\ clock = 1
    /\ InitProcs
    /\ parsed_data = NotRun
    /\ final_actions = NotRun

Step(p) ==
    \/ Dispatch(p)
    \/ CreateStep(p)
    \/ Resolve(p)
    \/ UpdFind(p)
    \/ UpdWrite(p)
    \/ DelFind(p)
    \/ DelWrite(p)
    \/ \E out \in PlainOutcomes : Render(p, out)
    \/ Return(p)

Next ==
    \/ \E u \in Users, out \in ChatOutputs : BeginChat(1, u, TextRequest, out)
    \/ ParseStep(1)
    \/ Summarize(1, ServiceError)
    \/ \E out \in PlainOutcomes : Reply(1, out)
    \/ \E u \in Users, a \in ExecActions : BeginActions(1, u, TextRequest, <<a>>)
    \/ Step(1)
    \/ Replay(1)

Spec == Init /\ [][Next]_vars

\* intent extraction on every completion outcome, and the validation loop on
\* every parsed array
InitExtract ==
    /\ store = <<>>
    /\ chats = <<Session(1, "u1", 0, PyNone)>>
    /\ clock = 0
    /\ InitProcs
    /\ parsed_data \in ParsedArrays \cup {NotRun}
    /\ final_actions = NotRun

NextExtract ==
    \/ /\ parsed_data = NotRun
       /\ \E u \in Users, out \in CompletionOutcomes :
             BeginChat(1, u, TextRequest, out)
    \/ ParseStep(1)
    \/ ValidateStep

SpecExtract == InitExtract /\ [][NextExtract]_vars

\* two requests served concurrently, on a store that holds one schedule
InitRace ==
    /\ store = RaceStore
    /\ chats = <<Session(1, "u1", 0, PyNone)>>
    /\ clock = 1
    /\ InitProcs
    /\ parsed_data = NotRun
    /\ final_actions = NotRun

RaceActions ==
    {a \in UpdateActions :
        /\ a.existing_start_time = PyDt(1)
        /\ a.new_title \in {PyNone, PyStr("B")}
        /\ a.new_start_time \in {PyNone, PyDt(2)}
        /\ a.new_end_time \in {PyNone, PyDt(1)}}
    \cup {a \in DeleteActions : a.existing_start_time = PyDt(1)}

NextRace ==
    \E p \in Procs :
        \/ \E u \in Users, a \in RaceActions : BeginActions(p, u, TextRequest, <<a>>)
        \/ Dispatch(p)
        \/ Resolve(p)
        \/ UpdFind(p)
        \/ UpdWrite(p)
        \/ DelFind(p)
        \/ DelWrite(p)
        \/ \E out \in PlainOutcomes : Render(p, out)
        \/ Return(p)

SpecRace == InitRace /\ [][NextRace]_vars

\* the turns of a session: sessions with logs around the threshold, every
\* kind of request, every answer of the completion service
SessionLogs == {0, 7, 8, 9}
StoredSummaries == {PyNone, Text(<<Tok("S0")>>)}
SessionRequests ==
    {Request(c, pr, t) : c \in {0, 1, 2, 3}, pr \in {Hi, Text(<<>>)}, t \in Modes}
NoIntentOutcomes ==
    {ServiceError, Response(PyNone), Response(Text(<<WordTok("null")>>))}

InitSession ==
    /\ store = <<>>
    /\ \E n \in SessionLogs, sm \in StoredSummaries :
          chats = <<Session(1, "u1", n, sm), Session(2, "u2", 0, PyNone)>>
    /\ clock = 1
    /\ InitProcs
    /\ parsed_data = NotRun
    /\ final_actions = NotRun

ReplyOutcomes ==
    {ServiceError, Response(PyNone), Response(Text(<<Tok("Done.")>>)),
     Response(Text(<<Tok("<speak>"), Tok("Done."), Tok("</speak>")>>))}

NextSession ==
    \/ \E u \in Users, data \in SessionRequests, out \in NoIntentOutcomes :
          BeginChat(1, u, data, out)
    \/ ParseStep(1)
    \/ \E out \in SummaryOutcomes : Summarize(1, out)
    \/ StoreSummary(1)
    \/ \E out \in ReplyOutcomes : Reply(1, out)
    \/ Return(1)

SpecSession == InitSession /\ [][NextSession]_vars

\* replies and executors in the two modes, on a store that holds one schedule
VoiceActions ==
    {[intent |-> "add_schedule", schedule_title |-> PyStr("B"),
      start_time |-> PyDt(1), end_time |-> e, image |-> PyStr("")] :
         e \in {PyNone, PyDt(2)}}
    \cup {[intent |-> "delete_schedule", schedule_identifier |-> i,
           existing_start_time |-> PyDt(1)] : i \in {PyStr("A"), PyStr("B")}}

NextVoice ==
    \/ \E u \in Users, t \in Modes :
          BeginChat(1, u, Request(1, Hi, t), Response(Text(<<WordTok("null")>>)))
    \/ ParseStep(1)
    \/ Summarize(1, ServiceError)
    \/ \E out \in SpeechOutcomes : Reply(1, out)
    \/ \E u \in Users, t \in Modes, a \in VoiceActions :
          BeginActions(1, u, Request(1, Hi, t), <<a>>)
    \/ Dispatch(1)
    \/ CreateStep(1)
    \/ Resolve(1)
    \/ DelFind(1)
    \/ DelWrite(1)
    \/ \E out \in SpeechOutcomes : Render(1, out)
    \/ Return(1)

SpecVoice == InitRace /\ [][NextVoice]_vars

\* turns on which the extraction gave one or two actions
BatchActions ==
    {[intent |-> "add_schedule", schedule_title |-> t, start_time |-> PyDt(1),
      end_time |-> PyDt(2), image |-> PyStr("")] : t \in {PyStr(""), PyStr("B")}}
    \cup {[intent |-> "delete_schedule", schedule_identifier |-> PyStr("A"),
           existing_start_time |-> PyDt(1)]}
Batches ==
    {<<a>> : a \in BatchActions} \cup {<<a, b>> : a \in BatchActions, b \in BatchActions}
BatchOutcomes ==
    {ServiceError, Response(Text(<<Tok("Done.")>>)), Response(Text(<<Tok("Sorry.")>>))}

NextBatch ==
    \/ \E u \in Users, actions \in Batches : BeginActions(1, u, TextRequest, actions)
    \/ Dispatch(1)
    \/ CreateStep(1)
    \/ Resolve(1)
    \/ DelFind(1)
    \/ DelWrite(1)
    \/ \E out \in BatchOutcomes : Render(1, out)
    \/ Return(1)

SpecBatch == Init /\ [][NextBatch]_vars

\* two turns of one session served concurrently, its log at the threshold
InitCompress ==
    /\ store = <<>>
    /\ \E sm \in StoredSummaries : chats = <<Session(1, "u1", 8, sm)>>
    /\ clock = 1
    /\ InitProcs
    /\ parsed_data = NotRun
    /\ final_actions = NotRun

NextCompress ==
    \E p \in Procs :
        \/ \E u \in Users :
              BeginChat(p, u, TextRequest, Response(Text(<<WordTok("null")>>)))
        \/ ParseStep(p)
        \/ \E t \in {"S1", "S2"} : Summarize(p, Response(Text(<<Tok(t)>>)))
        \/ StoreSummary(p)
        \/ \E out \in PlainOutcomes : Reply(p, out)
        \/ Return(p)

SpecCompress == InitCompress /\ [][NextCompress]_vars

(***************************************************************************)
(* The REST handlers of schedule_view on a schedule addressed by its id.   *)
(* A request is served in one step by a process, which ends at "done" with *)
(* the status of the response.  Every id of the model is a valid ObjectId. *)
(***************************************************************************)
\* datetime.fromisoformat: the date and the time with any one separator;
\* None stands for ValueError
fromisoformat(v) ==
    IF v.k # "str" THEN TypeError
    ELSE IF Strptime(v.s, "%Y-%m-%dT%H:%M:%S") # PyNone
    THEN Strptime(v.s, "%Y-%m-%dT%H:%M:%S")
    ELSE Strptime(v.s, "%Y-%m-%d %H:%M:%S")

\* schedule_model.find_schedule_by_id: find_one by _id with is_deleted False
\* (every document of the model has is_deleted False, as to_dict writes it)
find_schedule_by_id(docs, schedule_id) ==
    IF WithId(docs, schedule_id) = {} THEN PyNone
    ELSE docs[Min(WithId(docs, schedule_id))]

\* schedule_model.update_schedule as the view imports it: the collection
\* after the call, and the count or the exception
update_schedule_model(docs, schedule_id, updates, now) ==
    LET m == WithId(docs, schedule_id)
        rec == add_record(RecordData("None", "update", schedule_id))
        written == UpdateOne(docs, schedule_id, updates, now)
    IN  IF DOMAIN updates = {}
        THEN [raised |-> TRUE, exc |-> "Validation Error", docs |-> docs, count |-> 0]
        ELSE IF m = {}
        THEN [raised |-> TRUE, exc |-> "Validation Error", docs |-> docs, count |-> 0]
        ELSE IF ~DatesInOrder(docs[Min(m)], updates)
        THEN [raised |-> TRUE, exc |-> "Validation Error", docs |-> docs, count |-> 0]
        ELSE IF rec.raised
        THEN [raised |-> TRUE, exc |-> "Failed to update schedule with ID",
              docs |-> written, count |-> 0]
        ELSE [raised |-> FALSE, exc |-> "", docs |-> written, count |-> 1]

\* schedule_model.delete_schedule as the view imports it
delete_schedule_model(docs, schedule_id) ==
    LET m == WithId(docs, schedule_id)
        rec == add_record(RecordData(docs[Min(m)].user_id, "delete", schedule_id))
    IN  IF m = {}
        THEN [raised |-> TRUE, exc |-> "Validation Error", docs |-> docs, count |-> 0]
        ELSE IF rec.raised
        THEN [raised |-> TRUE, exc |-> "Failed to delete schedule with ID",
              docs |-> DeleteOne(docs, schedule_id), count |-> 0]
        ELSE [raised |-> FALSE, exc |-> "", docs |-> DeleteOne(docs, schedule_id),
              count |-> 1]

\* the process after a REST request of user u on schedule id
Served(u, id, status) ==
    [IdleProc EXCEPT !.pc = "done", !.user = u, !.sid = id, !.snap = store,
                     !.response = [status |-> status]]

\* schedule_view.update_schedule(id) for the user of the token, with the
\* request body data (None: no body)
update_schedule(p, u, id, data) ==
    /\ proc[p].pc = "idle"
    /\ clock + PendingAll + 1 <= MaxClock
    /\ LET updates == data.updates
           given == IF "schedule_date" \in DOMAIN updates
                    THEN fromisoformat(updates["schedule_date"]) ELSE PyNone
           converted == IF "schedule_date" \in DOMAIN updates
                        THEN [updates EXCEPT !["schedule_date"] = given]
                        ELSE updates
           r == update_schedule_model(store, id, converted, clock + 1)
           end(status) == /\ Set(p, Served(u, id, status))
                          /\ UNCHANGED <<store, clock>>
       IN  IF data = PyNone THEN end(400)
           ELSE IF DOMAIN updates = {} THEN end(400)
           ELSE IF "schedule_date" \in DOMAIN updates /\ given = PyNone THEN end(400)
           ELSE IF "schedule_date" \in DOMAIN updates /\ given = TypeError THEN end(500)
           ELSE /\ store' = r.docs
                /\ clock' = IF r.docs # store THEN clock + 1 ELSE clock
                /\ Set(p, Served(u, id, IF r.raised THEN 500
                                        ELSE IF r.count = 0 THEN 404 ELSE 200))
    /\ UNCHANGED <<chats, parsed_data, final_actions>>

\* schedule_view.delete_schedule(id) for the user of the token
delete_schedule(p, u, id) ==
    /\ proc[p].pc = "idle"
    /\ LET schedule == find_schedule_by_id(store, id)
           r == delete_schedule_model(store, id)
           end(status) == /\ Set(p, Served(u, id, status))
                          /\ UNCHANGED store
       IN  IF schedule = PyNone THEN end(404)
           ELSE IF schedule.user_id # u THEN end(403)
           ELSE /\ store' = r.docs
                /\ Set(p, Served(u, id, IF r.raised \/ r.count = 0 THEN 500 ELSE 200))
    /\ UNCHANGED <<chats, clock, parsed_data, final_actions>>

\* two owners: u1, whose requests are served, and u2; each has a session and
\* a schedule titled A at the same time
OwnersStore ==
    <<NewDoc(2, Payload("u2", [schedule_title |-> PyStr("A"), start_time |-> PyDt(1),
                               end_time |-> PyDt(2)]), 1),
      NewDoc(1, Payload("u1", [schedule_title |-> PyStr("A"), start_time |-> PyDt(1),
                               end_time |-> PyDt(2)]), 1)>>
RestBodies ==
    {PyNone, [updates |-> EmptyObj],
     [updates |-> "reminder_message" :> PyStr("Z")],
     [updates |-> "schedule_date" :> PyStr("2024-03-01T11:00:00")],
     [updates |-> "schedule_date" :> PyStr("soon")],
     [updates |-> "schedule_date" :> PyNone]}
OwnersActions ==
    {a \in UpdateActions :
        /\ a.existing_start_time = PyDt(1)
        /\ a.new_title \in {PyNone, PyStr("B")}
        /\ a.new_start_time = PyNone
        /\ a.new_end_time = PyNone}
    \cup {a \in DeleteActions : a.existing_start_time = PyDt(1)}

InitOwners ==
    /\ store = OwnersStore
    /\ chats = <<Session(1, "u1", 0, PyNone), Session(2, "u2", 0, PyNone)>>
    /\ clock = 1
    /\ InitProcs
    /\ parsed_data = NotRun
    /\ final_actions = NotRun

NextOwners ==
    \/ \E u \in Users, c \in {1, 2} :
          BeginChat(1, u, Request(c, Hi, "chat"), Response(Text(<<WordTok("null")>>)))
    \/ ParseStep(1)
    \/ Summarize(1, ServiceError)
    \/ \E out \in PlainOutcomes : Reply(1, out)
    \/ \E u \in Users, c \in {1, 2}, a \in OwnersActions :
          BeginActions(1, u, Request(c, Hi, "chat"), <<a>>)
    \/ Dispatch(1)
    \/ Resolve(1)
    \/ UpdFind(1)
    \/ UpdWrite(1)
    \/ DelFind(1)
    \/ DelWrite(1)
    \/ \E out \in PlainOutcomes : Render(1, out)
    \/ \E u \in Users, id \in {1, 2, 3}, data \in RestBodies :
          update_schedule(1, u, id, data)
    \/ \E u \in Users, id \in {1, 2, 3} : delete_schedule(1, u, id)
    \/ Return(1)

SpecOwners == InitOwners /\ [][NextOwners]_vars

(***************************************************************************)
(* Properties.                                                             *)
(***************************************************************************)
Last(seq) == seq[Len(seq)]
PastParse(p) == proc[p].completion # NoCompletion /\ proc[p].pc # "parse"

\* C1: a completion output that is one valid action, as a one-element array or
\* as a bare object, is extracted as the one-element list holding that action.
C1_SingleActionExtracted ==
    \A p \in Procs : \A i \in TextItems :
        (/\ PastParse(p)
         /\ ValidateItem(JDict(i)).ok
         /\ proc[p].completion \in
               {Response(Text(RenderJson(JList(<<JDict(i)>>)))),
                Response(Text(RenderJson(JDict(i))))})
        => proc[p].intent_result = ActionList(<<ValidateItem(JDict(i)).action>>)

\* C2: when the completion output is the token null, bare or quoted, in any
\* letter case, extraction returns None and the turn goes on to the normal
\* conversational reply.
NullOutputs ==
    {Response(Text(<<WordTok(w)>>)) : w \in {"null", "NULL", "Null"}}
    \cup {Response(Text(<<StringTok(w)>>)) : w \in {"null", "NULL", "Null"}}
C2_NullYieldsNone ==
    \A p \in Procs :
        (PastParse(p) /\ proc[p].completion \in NullOutputs)
        => (proc[p].intent_result = PyNone /\ proc[p].pc = "reply")
C2_Witness ==
    \E p \in Procs :
        /\ proc[p].pc = "reply"
        /\ proc[p].completion = Response(Text(<<StringTok("NULL")>>))

\* C3: validation is all-or-nothing: an array with an element that is not an
\* object, or has an intent other than the three, or is an add_schedule whose
\* start_time is missing, null or unparseable, yields None; a returned list
\* has one action for every element of the array.
KnownIntents == {PyStr("add_schedule"), PyStr("update_schedule"), PyStr("delete_schedule")}
BadElement(e) ==
    \/ e.k # "dict"
    \/ Get(e.item, "intent", PyNone) \notin KnownIntents
    \/ /\ Get(e.item, "intent", PyNone) = PyStr("add_schedule")
       /\ Get(e.item, "start_time", ABSENT) \in
             {ABSENT, PyNone, PyStr("banana"), PyStr("")}
C3_AllOrNothing ==
    (parsed_data # NotRun /\ final_actions # NotRun)
    => /\ (\E i \in 1..Len(parsed_data.elems) : BadElement(parsed_data.elems[i]))
             => final_actions = PyNone
       /\ final_actions.k = "list"
             => Len(final_actions.elems) = Len(parsed_data.elems)

\* C4: every action of a returned list carries its required fields: a title and
\* a start time for add_schedule, an identifier for update_schedule and
\* delete_schedule.
C4_RequiredFields ==
    (final_actions # NotRun /\ final_actions.k = "list")
    => \A i \in 1..Len(final_actions.elems) :
          LET a == final_actions.elems[i]
          IN  IF a.intent = "add_schedule"
              THEN Truthy(a.schedule_title) /\ a.start_time.k = "datetime"
              ELSE Truthy(a.schedule_identifier)

\* C5: extraction never raises: whatever the completion call produces, the
\* result is None or a list of actions, and on None the turn goes on to the
\* normal conversational reply with no error response.
C5_NeverRaises ==
    \A p \in Procs :
        PastParse(p)
        => /\ proc[p].intent_result.k \in {"none", "list"}
           /\ proc[p].intent_result = PyNone => proc[p].pc = "reply"
           /\ proc[p].response.status # 500

\* the one action of a turn that executes a single action
OnlyAction(p) == proc[p].intent_result.elems[1]
SingleAction(p, intent) ==
    /\ proc[p].completion = NoCompletion
    /\ proc[p].intent_result.k = "list"
    /\ Len(proc[p].intent_result.elems) = 1
    /\ OnlyAction(p).intent = intent

\* C6: Create with a title, a start and an end not before the start adds
\* exactly one record (that title, start, end, status Pending) for the owner
\* and returns a success outcome with the new record's id.
C6_CreateSucceeds ==
    \A p \in Procs :
        (/\ SingleAction(p, "add_schedule")
         /\ proc[p].round = 1
         /\ proc[p].pc = "render"
         /\ Truthy(proc[p].act.schedule_title)
         /\ proc[p].act.end_time.k = "datetime"
         /\ proc[p].act.end_time.t >= proc[p].act.start_time.t)
        => /\ Last(proc[p].outcomes).success
           /\ Len(store) = Len(proc[p].snap) + 1
           /\ \E i \in 1..Len(store) :
                 /\ store[i].id = Last(proc[p].outcomes).created_id
                 /\ store[i].user_id = proc[p].user
                 /\ store[i].reminder_message = proc[p].act.schedule_title
                 /\ store[i].schedule_date = proc[p].act.start_time
                 /\ store[i].schedule_end_date = proc[p].act.end_time
                 /\ store[i].status = "Pending"

\* the first execution of an update or delete changed the store
FirstApplied(p) ==
    \/ proc[p].first[1].success
    \/ proc[p].first[1].details \in {"Failed to update schedule with ID",
                                     "Failed to delete schedule with ID"}
\* exactly one schedule matched the action when the first execution began
OneMatch(p) ==
    Cardinality(Matches(proc[p].snap, proc[p].user,
                        OnlyAction(p).schedule_identifier,
                        OnlyAction(p).existing_start_time)) = 1
ExecutedTwice(p, intent) ==
    /\ SingleAction(p, intent)
    /\ proc[p].round = 2
    /\ proc[p].pc = "done"
    /\ proc[p].response.status = 200

\* C7: Delete invoked twice in sequence with the same identifier and time, one
\* schedule matching: success, then a not-found failure, and the store has lost
\* exactly one record.
C7_DeleteTwice ==
    \A p \in Procs :
        (ExecutedTwice(p, "delete_schedule") /\ OneMatch(p))
        => /\ proc[p].first[1].success
           /\ ~proc[p].outcomes[1].success
           /\ proc[p].outcomes[1].details = "Could not find a schedule"
           /\ Len(store) = Len(proc[p].snap) - 1

\* C8: a confirmed intent is executed exactly once: a turn on which the
\* completion service answers the extraction call with the confirmed
\* add_schedule leaves exactly one new record, and executing the same actions
\* again on a later turn adds no further record.
C8_ExactlyOnce ==
    \A p \in Procs :
        /\ (/\ proc[p].pc = "done"
            /\ proc[p].response.status = 200
            /\ proc[p].completion =
                  Response(Text(RenderJson(JList(<<JDict(ConfirmedAdd)>>)))))
           => Len(store) = Len(proc[p].snap) + 1
        /\ ExecutedTwice(p, "add_schedule")
           => Len(store) <= Len(proc[p].snap) + 1

\* C9: Update fails and leaves the store unchanged when (a) no schedule of the
\* owner has the identifier as title and existing_start_time as start, (b) the
\* target is found but no new_* field is given, (c) the store modifies no
\* document.
UpdateFails(p) ==
    /\ proc'[p].pc = "render"
    /\ ~Last(proc'[p].outcomes).success
    /\ Last(proc'[p].outcomes).action_type = "update"
    /\ store' = store
C9_UpdateFailsClosed ==
    [][\A p \in Procs :
          (/\ proc[p].act.intent = "update_schedule"
           /\ proc[p].pc \in {"resolve", "upd_find", "upd_write"}
           /\ proc'[p] # proc[p])
          => LET a == proc[p].act
                 noMatch == \A i \in 1..Len(store) :
                               \/ store[i].user_id # proc[p].user
                               \/ store[i].reminder_message # a.schedule_identifier
                               \/ store[i].schedule_date # a.existing_start_time
                 nothingNew == /\ ~Truthy(a.new_title)
                               /\ ~Truthy(a.new_start_time)
                               /\ ~Truthy(a.new_end_time)
                 noneModified == \A i \in 1..Len(store) : store[i].id # proc[p].sid
             IN  /\ (proc[p].pc = "resolve" /\ (noMatch \/ nothingNew)) => UpdateFails(p)
                 /\ (proc[p].pc = "upd_write" /\ noneModified) => UpdateFails(p)
                 /\ proc[p].pc \in {"resolve", "upd_find"} => store' = store]_vars
C9_Witness ==
    \E p \in Procs :
        /\ proc[p].pc = "render"
        /\ proc[p].act.intent = "update_schedule"
        /\ Last(proc[p].outcomes).details = "Failed to update schedule"
        /\ ~Last(proc[p].outcomes).success

\* C10 as stated: the same Update executed twice in sequence, one schedule
\* matching and the first execution applied: the second fails with not-found
\* and does not modify the store, whatever new_* fields are given.
SecondNotFound(p) ==
    /\ ~proc[p].outcomes[1].success
    /\ proc[p].outcomes[1].details = "Could not find a schedule"
    /\ store = proc[p].mid
KeyChanges(a) ==
    \/ Truthy(a.new_start_time)
    \/ (Truthy(a.new_title) /\ a.new_title # a.schedule_identifier)
NotSystem(m) == m.role # "system"
OnlySystem(m) == m.role = "system"
LastN(seq, n) == IF Len(seq) <= n THEN seq ELSE SubSeq(seq, Len(seq) - n + 1, Len(seq))
\* the window the turn of process p started with: the stored messages and
\* the user's message
WindowBefore(p) == Append(proc[p].loaded.messages, Msg("user", proc[p].prompt))
StoredChat(p) == find_chat_by_id(chats, proc[p].chat_id)
\* the trimming step of the turn of process p is over
Trimmed(p) == proc[p].pc = "respond" /\ proc[p].loaded # PyNone
NonEmptyText(v) == v.k = "text" /\ v.toks # <<>>

\* C11: after maybe_proactive_trimming, a window of more than 8
\* user/assistant messages has become the system messages followed by the
\* last 8 user/assistant messages in their order, and a non-empty summary
\* is stored; a window of 8 or fewer is as it was, the stored summary is as
\* it was and no summarization was requested.
C11_Compress ==
    \A p \in Procs :
        Trimmed(p) =>
            IF Len(SelectSeq(WindowBefore(p), NotSystem)) > 8
            THEN /\ proc[p].conversation_history =
                       SelectSeq(WindowBefore(p), OnlySystem)
                       \o LastN(SelectSeq(WindowBefore(p), NotSystem), 8)
                 /\ NonEmptyText(StoredChat(p).summary_so_far)
            ELSE /\ proc[p].conversation_history = WindowBefore(p)
                 /\ StoredChat(p).summary_so_far = proc[p].loaded.summary_so_far
                 /\ proc[p].summarized = NotRun

\* C12: the stored summary of a session changes only by a compression, and
\* then it becomes the summary stored before, a double newline and the new
\* summary text, or the new text alone when no summary was stored: the
\* summary stored before is a prefix of the new one.
Appended(old, text, new) ==
    IF NonEmptyText(old)
    THEN /\ text.k = "text"
         /\ new = Text(old.toks \o <<Tok("\n\n")>> \o text.toks)
         /\ SubSeq(new.toks, 1, Len(old.toks)) = old.toks
    ELSE new = text
C12_AppendOnly ==
    [][\A i \in 1..Len(chats) :
          chats'[i].summary_so_far # chats[i].summary_so_far
          => \E p \in Procs :
                /\ proc[p].pc = "store_summary"
                /\ proc[p].chat_id = chats[i].id
                /\ Appended(chats[i].summary_so_far, proc[p].summary_text,
                            chats'[i].summary_so_far)]_vars
\* two compressions in a row on a session that had a summary
C12_Witness ==
    \E i \in 1..Len(chats) :
        chats[i].summary_so_far =
            Text(<<Tok("S0"), Tok("\n\n"), Tok("S1"), Tok("\n\n"), Tok("S2")>>)

\* C13: while a turn of a session is served, the first message of the
\* window and of the stored log is the system message; the system messages
\* of the window and of the stored log are those the session had, unaltered;
\* the messages sent for summarization hold no system message, and they are
\* as many as the user/assistant messages in excess of 8.
SystemOf(msgs) == SelectSeq(msgs, OnlySystem)
C13_SystemKept ==
    \A p \in Procs :
        proc[p].loaded # PyNone =>
            /\ proc[p].conversation_history # <<>>
            /\ proc[p].conversation_history[1].role = "system"
            /\ SystemOf(proc[p].conversation_history) = SystemOf(proc[p].loaded.messages)
            /\ StoredChat(p).messages[1].role = "system"
            /\ SystemOf(StoredChat(p).messages) = SystemOf(proc[p].loaded.messages)
            /\ proc[p].summarized # NotRun =>
                  /\ \A i \in 1..Len(proc[p].summarized.msgs) :
                        proc[p].summarized.msgs[i].role # "system"
                  /\ Len(proc[p].summarized.msgs) =
                        Len(SelectSeq(WindowBefore(p), NotSystem)) - 8
\* a compression has cut the window, and the reply has been appended
C13_Witness ==
    \E p \in Procs :
        /\ proc[p].loaded # PyNone
        /\ proc[p].pc = "done"
        /\ proc[p].response.status = 200
        /\ proc[p].summarized # NotRun
        /\ Len(proc[p].summarized.msgs) = 2
        /\ Len(proc[p].conversation_history) < Len(StoredChat(p).messages)

\* C14: a step in which maybe_proactive_trimming fails (at the
\* summarization call, or when the summary is put together) leaves the
\* window with the messages it had, in their order, and the stored
\* summary_so_far as it was when the turn began.
TrimmingFails(p) ==
    /\ proc[p].pc \in {"reply", "store_summary"}
    /\ proc'[p].pc = "done"
C14_NoPartialState ==
    [][\A p \in Procs :
          TrimmingFails(p) =>
              /\ proc'[p].conversation_history = WindowBefore(p)
              /\ StoredChat(p)'.summary_so_far = proc[p].loaded.summary_so_far
              /\ StoredChat(p)'.messages = WindowBefore(p)]_vars
\* the turn has ended in the trimming of a window of more than 8 messages
C14_Witness ==
    \E p \in Procs :
        /\ proc[p].pc = "done"
        /\ proc[p].summarized # NotRun
        /\ proc[p].response.status = 500
        /\ proc[p].conversation_history = WindowBefore(p)
        /\ NonEmptyText(proc[p].loaded.summary_so_far)

\* C15: the summarization call of maybe_proactive_trimming never ends the
\* turn, whatever the completion service answers: the turn goes on to the
\* conversational reply.
C15_SummaryFailureIsSoft ==
    [][\A p \in Procs : proc[p].pc = "reply" => proc'[p].pc # "done"]_vars

(***************************************************************************)
(* The executors and the turn as a whole.                                  *)
(***************************************************************************)
\* C16: no step of an executor, the completion call that words its outcome
\* included, ends the turn: the executor returns an outcome message to the
\* loop of chat().
InExecutor(p) ==
    proc[p].pc \in {"create", "resolve", "upd_find", "upd_write",
                    "del_find", "del_write", "render"}
C16_ExecutorsReturn ==
    [][\A p \in Procs : InExecutor(p) => proc'[p].pc # "done"]_vars

\* C17: a turn on a session that was found and is owned by the user ends
\* with status 200 and a response text for that session.
C17_AlwaysResponds ==
    \A p \in Procs :
        (proc[p].pc = "done" /\ proc[p].loaded # PyNone)
        => /\ proc[p].response.status = 200
           /\ NonEmptyText(proc[p].response.response)

\* C18: in a call the text of a reply and the text of an action-outcome
\* message are the first <speak> block of the completion output when it
\* holds one, and the output itself when it holds none; in a chat they are
\* the output itself.  (An outcome message is compared up to the white space
\* around it, which generate_action_response strips in both modes.)
HasSpeakBlock(text) ==
    \E i, j \in 1..Len(text) : i < j /\ OpensSpeak(text[i]) /\ ClosesSpeak(text[j])
Spoken(mode, raw) ==
    IF mode = "call" /\ HasSpeakBlock(raw) THEN extract_speak_block(raw) ELSE raw
Replied(p) ==
    /\ proc[p].pc = "done"
    /\ proc[p].completion # NoCompletion
    /\ proc[p].response.status = 200
    /\ proc[p].response.response # PyNone
Worded(p) ==
    /\ proc[p].pc = "dispatch"
    /\ proc[p].content # PyNone
    /\ proc[p].responses # <<>>
\* the completion output of the reply: get_ai_response appends it to the
\* window, and chat() appends the final message after it
RawReply(p) ==
    proc[p].conversation_history[Len(proc[p].conversation_history) - 1].content
C18_VoiceRendering ==
    \A p \in Procs :
        /\ Replied(p) =>
              proc[p].response.response.toks
                 = Spoken(proc[p].conversation_type, RawReply(p).toks)
        /\ Worded(p) =>
              Last(proc[p].responses).toks
                 = Spoken(proc[p].conversation_type, Strip(proc[p].content.toks))

\* C19: a turn whose request names no session has created a session of the
\* user whose log is one system message and then the user's message, and it
\* ends with status 200, the id of that session and a response text.
C19_NewSession ==
    \A p \in Procs :
        (proc[p].pc # "idle" /\ proc[p].data.chat_id = 0)
        => /\ StoredChat(p) # PyNone
           /\ StoredChat(p).user_id = proc[p].user
           /\ Len(SystemOf(StoredChat(p).messages)) = 1
           /\ StoredChat(p).messages[1].role = "system"
           /\ StoredChat(p).messages[2] = Msg("user", proc[p].prompt)
           /\ proc[p].pc = "done" => proc[p].response.status = 200

\* C20: a Create with a title and a start_time and no end_time is executed:
\* it adds one record for the owner and its outcome is a success.
C20_EndTimeOptional ==
    \A p \in Procs :
        (/\ SingleAction(p, "add_schedule")
         /\ proc[p].round = 1
         /\ proc[p].pc = "render"
         /\ Truthy(proc[p].act.schedule_title)
         /\ Truthy(proc[p].act.start_time)
         /\ proc[p].act.end_time = PyNone)
        => /\ Len(store) = Len(proc[p].snap) + 1
           /\ \E i \in 1..Len(store) :
                 /\ store[i].user_id = proc[p].user
                 /\ store[i].reminder_message = proc[p].act.schedule_title
                 /\ store[i].schedule_date = proc[p].act.start_time
           /\ Last(proc[p].outcomes).success

(***************************************************************************)
(* Concurrent turns.                                                       *)
(***************************************************************************)
\* the outcome of the delete that process p has executed
Deleted(p) ==
    /\ proc[p].act.intent = "delete_schedule"
    /\ proc[p].pc \in {"render", "dispatch", "done"}
    /\ proc[p].outcomes # <<>>
\* that delete took the record out of the store
TookOut(p) ==
    \/ Last(proc[p].outcomes).success
    \/ Last(proc[p].outcomes).details = "Failed to delete schedule with ID"
\* C21: of two turns whose Delete resolved to the same schedule, at most
\* one removes the record and at most one reports a success; a step that
\* finds the record gone, at the lookup by id or at the delete, ends in a
\* failure outcome and leaves the store as it is.
C21_DeleteRace ==
    [][/\ \A p, q \in Procs :
             (p # q /\ Deleted(p)' /\ Deleted(q)' /\ proc'[p].sid = proc'[q].sid
                /\ proc'[p].sid # 0)
             => /\ ~(TookOut(p)' /\ TookOut(q)')
                /\ ~(Last(proc[p].outcomes).success' /\ Last(proc[q].outcomes).success')
       /\ \A p \in Procs :
             (/\ proc[p].pc \in {"del_find", "del_write"}
              /\ WithId(store, proc[p].sid) = {}
              /\ proc'[p] # proc[p])
             => /\ proc'[p].pc = "render"
                /\ ~Last(proc'[p].outcomes).success
                /\ store' = store]_vars
\* both turns resolved the schedule before either deleted it, and the one
\* that came second found the deleted count zero
C21_Witness ==
    \E p, q \in Procs :
        /\ p # q /\ Deleted(p) /\ Deleted(q)
        /\ proc[p].sid = proc[q].sid /\ proc[p].sid # 0
        /\ TookOut(p)
        /\ Last(proc[q].outcomes).details = "Failed to delete schedule"

(***************************************************************************)
(* The stored log of a session.                                            *)
(***************************************************************************)
\* the trimming step of the turn of process p has compressed the window
Compressed(p) == Trimmed(p) /\ proc[p].summarized # NotRun
\* C22: after a compression the message list stored for the session is the
\* trimmed window: the system messages followed by the last 8 user/assistant
\* messages.
C22_TrimmedWindowStored ==
    \A p \in Procs :
        Compressed(p) =>
            /\ StoredChat(p).messages = proc[p].conversation_history
            /\ StoredChat(p).messages =
                  SystemOf(WindowBefore(p))
                  \o LastN(SelectSeq(WindowBefore(p), NotSystem), 8)

(***************************************************************************)
(* The dispatch loop of chat().                                            *)
(***************************************************************************)
\* the turn of process p executed the actions of intent_result and is over
Dispatched(p) ==
    /\ proc[p].pc = "done"
    /\ proc[p].completion = NoCompletion
    /\ proc[p].intent_result.k = "list"
    /\ proc[p].round = 1
ActionTypeOf(a) ==
    IF a.intent = "add_schedule" THEN "create" ELSE ActionType(a)
\* the assistant messages the turn produced, one per response
AssistantMsgs(p) ==
    [i \in 1..Len(proc[p].responses) |-> Msg("assistant", proc[p].responses[i])]
\* C23: a turn whose extraction returned n actions ends with status 200;
\* the stored log and the window are what the session held, the user's
\* message, and one assistant message per action in the order of the list;
\* the response is those n messages in that order; the actions were
\* executed in the order of the list and no summarization or reply was
\* requested.
C23_OneMessagePerAction ==
    \A p \in Procs :
        Dispatched(p) =>
            /\ proc[p].response.status = 200
            /\ Len(proc[p].responses) = Len(proc[p].intent_result.elems)
            /\ proc[p].response.response = proc[p].responses
            /\ StoredChat(p).messages = WindowBefore(p) \o AssistantMsgs(p)
            /\ proc[p].conversation_history = WindowBefore(p) \o AssistantMsgs(p)
            /\ Len(proc[p].outcomes) = Len(proc[p].intent_result.elems)
            /\ \A i \in 1..Len(proc[p].outcomes) :
                  proc[p].outcomes[i] # NotRun =>
                     proc[p].outcomes[i].action_type
                        = ActionTypeOf(proc[p].intent_result.elems[i])
            /\ proc[p].summarized = NotRun

(***************************************************************************)
(* The effect of an update on the store.                                   *)
(***************************************************************************)
\* C24: the step in which an Update is applied changes, of the target
\* schedule, reminder_message only if new_title was given, schedule_date
\* only if new_start_time was given, schedule_end_date only if new_end_time
\* was given, and updated_at; its other fields and the other schedules of
\* the store are left as they were.
Applies(p) == proc[p].pc = "upd_write" /\ proc'[p] # proc[p]
C24_UpdateFrame ==
    [][\A p \in Procs :
          Applies(p) =>
              /\ Len(store') = Len(store)
              /\ \A i \in 1..Len(store) :
                    IF store[i].id = proc[p].sid
                    THEN /\ store'[i].id = store[i].id
                         /\ store'[i].user_id = store[i].user_id
                         /\ store'[i].status = store[i].status
                         /\ store'[i].reminder_message # store[i].reminder_message
                               => Truthy(proc[p].act.new_title)
                         /\ store'[i].schedule_date # store[i].schedule_date
                               => Truthy(proc[p].act.new_start_time)
                         /\ store'[i].schedule_end_date # store[i].schedule_end_date
                               => Truthy(proc[p].act.new_end_time)
                    ELSE store'[i] = store[i]]_vars
\* an update that gave a new title only has been applied to one of two
\* schedules
C24_Witness ==
    \E p \in Procs :
        /\ proc[p].pc = "render"
        /\ proc[p].act.intent = "update_schedule"
        /\ Truthy(proc[p].act.new_title)
        /\ ~Truthy(proc[p].act.new_start_time)
        /\ ~Truthy(proc[p].act.new_end_time)
        /\ Len(store) = 2
        /\ \E i \in 1..Len(store) :
              /\ store[i].id = proc[p].sid
              /\ store[i].reminder_message = proc[p].act.new_title
              /\ store[i].reminder_message # proc[p].snap[i].reminder_message
              /\ store[i].schedule_date = proc[p].snap[i].schedule_date

(***************************************************************************)
(* The schedules the extraction is given.                                  *)
(***************************************************************************)
\* C25: when the extraction call of a turn is made, the schedules it is
\* given are the schedules of the user in the store.
C25_KnownSchedules ==
    \A p \in Procs :
        proc[p].pc = "parse" =>
            /\ proc[p].schedules.k = "list"
            /\ proc[p].schedules.elems =
                  SelectSeq(store, LAMBDA doc : doc.user_id = proc[p].user)

(***************************************************************************)
(* Concurrent compressions.                                                *)
(***************************************************************************)
\* `part` occurs in `whole` as a run of tokens
Contains(whole, part) ==
    \E i \in 0..(Len(whole) - Len(part)) : SubSeq(whole, i + 1, i + Len(part)) = part
IsPrefix(part, whole) ==
    Len(part) <= Len(whole) /\ SubSeq(whole, 1, Len(part)) = part
SummaryToks(v) == IF v.k = "text" THEN v.toks ELSE <<>>
\* C26: when two turns of one session have both compressed, the stored
\* summary_so_far holds the summary text of each of them and starts with the
\* summary that was stored before them.
C26_ConcurrentAppend ==
    \A p, q \in Procs :
        (p # q /\ Compressed(p) /\ Compressed(q) /\ proc[p].chat_id = proc[q].chat_id)
        => /\ Contains(SummaryToks(StoredChat(p).summary_so_far),
                       SummaryToks(proc[p].summary_text))
           /\ Contains(SummaryToks(StoredChat(p).summary_so_far),
                       SummaryToks(proc[q].summary_text))
           /\ \/ IsPrefix(SummaryToks(proc[p].loaded.summary_so_far),
                          SummaryToks(StoredChat(p).summary_so_far))
              \/ IsPrefix(SummaryToks(proc[q].loaded.summary_so_far),
                          SummaryToks(StoredChat(p).summary_so_far))

(***************************************************************************)
(* Outcomes and the store.                                                 *)
(***************************************************************************)
\* C27: when the executor of a Create, Update or Delete has handed a
\* failure outcome to the wording, the store is as it was when the turn
\* began.
C27_FailureLeavesStore ==
    \A p \in Procs :
        (/\ SingleAction(p, OnlyAction(p).intent)
         /\ proc[p].round = 1
         /\ proc[p].pc = "render"
         /\ ~Last(proc[p].outcomes).success)
        => store = proc[p].snap

(***************************************************************************)
(* Resolution after an update of the start time.                           *)
(***************************************************************************)
\* the update of process p went through update_one in this turn
UpdateWritten(p) ==
    /\ SingleAction(p, "update_schedule")
    /\ proc[p].round = 1
    /\ proc[p].pc = "render"
    /\ \/ Last(proc[p].outcomes).success
       \/ Last(proc[p].outcomes).details = "Failed to update schedule with ID"
\* the title the updated schedule carries after the update
TitleAfter(a) == IF Truthy(a.new_title) THEN a.new_title ELSE a.schedule_identifier
\* C28: after an Update that sets new_start_time T' has been applied to the
\* owner's schedule, find_schedule_by_name_and_datetime by the owner, the
\* schedule's title and T' returns that schedule.
C28_ResolvesByNewStart ==
    \A p \in Procs :
        (UpdateWritten(p) /\ Truthy(OnlyAction(p).new_start_time))
        => LET found == find_schedule_by_name_and_datetime(
                            store, proc[p].user, TitleAfter(OnlyAction(p)),
                            OnlyAction(p).new_start_time)
           IN  /\ ~found.raised
               /\ found.val # PyNone
               /\ found.val.id = proc[p].sid

(***************************************************************************)
(* Successive compressions of one session.                                 *)
(***************************************************************************)
\* the turn of process p compressed and is over, and the turn of process q
\* on the same session loaded the session after p's user message and reply
\* were stored, and compressed as well
TurnAfter(p, q) ==
    /\ p # q
    /\ proc[p].pc = "done"
    /\ proc[p].response.status = 200
    /\ proc[p].summarized # NotRun
    /\ proc[q].summarized # NotRun
    /\ proc[q].chat_id = proc[p].chat_id
    /\ Len(proc[q].loaded.messages) >= Len(proc[p].loaded.messages) + 2
\* C29: over successive turns of a session no message is sent for
\* summarization twice: the older chunk a later compression sends holds no
\* message that an earlier compression of the session sent.
C29_SummarizedOnce ==
    \A p, q \in Procs :
        TurnAfter(p, q) =>
            \A i \in 1..Len(proc[q].summarized.msgs) :
                \A j \in 1..Len(proc[p].summarized.msgs) :
                    proc[q].summarized.msgs[i] # proc[p].summarized.msgs[j]

(***************************************************************************)
(* Owners.                                                                 *)
(***************************************************************************)
\* the documents of a collection that user u does not own
Foreign(u, docs) == SelectSeq(docs, LAMBDA d : d.user_id # u)
\* process p has served a REST request addressed to a schedule that someone
\* else owned
ForeignTarget(p) ==
    /\ proc[p].pc = "idle"
    /\ proc'[p].pc = "done"
    /\ proc'[p].sid # 0
    /\ \E i \in 1..Len(store) :
          store[i].id = proc'[p].sid /\ store[i].user_id # proc'[p].user
\* process p has opened a turn on a session that someone else owns
ForeignSession(p) ==
    /\ proc[p].pc = "idle"
    /\ proc'[p].pc # "idle"
    /\ proc'[p].data # NoRequest
    /\ \E i \in 1..Len(chats) :
          chats[i].id = proc'[p].data.chat_id /\ chats[i].user_id # proc'[p].user
\* C30: no step taken for a user changes the schedules or the sessions of
\* another user, and a request addressed to a schedule or a session of
\* another user ends at once with a status other than 200.
C30_OwnerIsolation ==
    [][\A p \in Procs :
          (proc'[p] # proc[p] /\ proc'[p].user # "")
          => /\ Foreign(proc'[p].user, store') = Foreign(proc'[p].user, store)
             /\ Foreign(proc'[p].user, chats') = Foreign(proc'[p].user, chats)
             /\ (ForeignTarget(p) \/ ForeignSession(p))
                   => (proc'[p].pc = "done" /\ proc'[p].response.status # 200)]_vars

====
